---- MODULE Spec2Model ----
(***************************************************************************)
(* Model of the stacks-dex pool contract (pool-v5): a constant-product     *)
(* AMM with LP shares, single swaps / liquidity calls and the four bulk    *)
(* entry points.  Every public function is one action; the function body   *)
(* is an operator over a pool-state record so that the bulk entry points   *)
(* can thread the state through their items.                               *)
(***************************************************************************)
EXTENDS Integers, Sequences, FiniteSets, Bags, TLC

\* ---------------------------------------------------------------- constants
FEE_BPS == 30
BPS_DENOM == 10000
MINIMUM_LIQUIDITY == 1000

ERR_ZERO_INPUT == 100
ERR_ZERO_RESERVES == 101
ERR_DEADLINE_EXPIRED == 102
ERR_SLIPPAGE_EXCEEDED == 103
ERR_INSUFFICIENT_LIQUIDITY == 104
ERR_TRANSFER_X_FAILED == 105
ERR_TRANSFER_Y_FAILED == 106
ERR_FEE_TRANSFER_FAILED == 107
ERR_ALREADY_INITIALIZED == 200
ERR_NOT_INITIALIZED == 201
ERR_INSUFFICIENT_LP_BALANCE == 202
ERR_ZERO_SHARES == 203
ERR_MIN_LIQUIDITY == 204

\* ------------------------------------------------------------------- bounds
MaxSteps == 3
MaxHeight == 2
MaxBatch == 2
\* largest small reserve and largest small input of the quote ranges
MaxReserve == 8
MaxQuoteIn == 20

\* ------------------------------------------------------------------- inputs
Accounts == {"a1", "a2"}
None == "none"

InitAmounts == {<<0, 2000>>, <<100, 100>>, <<1000, 2000>>, <<4000, 100>>}
SwapAmounts == {0, 500}
SwapMins == {0, 400}
Recipients == {"a2"}
Deadlines == {0, 1, MaxHeight}
SwapFails == {"none", "fee", "in", "out"}
LiqFails == {"none", "x", "y"}
AddAmounts == {<<0, 500>>, <<500, 1000>>, <<1, 1>>}
AddMins == {0, 100000}
RemoveMins == {<<0, 0>>, <<100000, 0>>}

\* ------------------------------------------------------------------- state
VARIABLES fee_recipient, reserve_x, reserve_y, total_supply,
          total_fees_x, total_fees_y, lp_balances,
          stacks_block_height, steps, last,
          custody_x, custody_y,
          total_fees_collected, user_deposits,
          state, tasks

vars == <<fee_recipient, reserve_x, reserve_y, total_supply,
          total_fees_x, total_fees_y, lp_balances,
          stacks_block_height, steps, last, custody_x, custody_y,
          total_fees_collected, user_deposits, state, tasks>>

\* what only the V2 contract keeps, and the frontend
v2_vars == <<total_fees_collected, user_deposits>>
frontend_vars == <<state, tasks>>

Null == "null"

\* the frontend's state object as the page loads it
InitialState ==
  [connected |-> FALSE, address |-> Null, provider |-> Null, session |-> Null,
   balanceX |-> 0, balanceY |-> 0, reserveX |-> 0, reserveY |-> 0]

\* no V2 pool is in use and no page is open
Elsewhere ==
  /\ total_fees_collected = 0
  /\ user_deposits = [a \in Accounts |-> 0]
  /\ state = InitialState
  /\ tasks = EmptyBag

\* the contract's data-vars and map as one record
PoolState ==
  [fee_recipient |-> fee_recipient, reserve_x |-> reserve_x,
   reserve_y |-> reserve_y, total_supply |-> total_supply,
   total_fees_x |-> total_fees_x, total_fees_y |-> total_fees_y,
   lp_balances |-> lp_balances]

\* ---------------------------------------------------------------- responses
Ok(v) == [kind |-> "ok", val |-> v]
Err(c) == [kind |-> "err", val |-> c]
\* a runtime fault (division by zero, uint underflow) aborts the transaction
Abort == [kind |-> "abort", val |-> 0]

\* F at the value of v: v is computed once, however often F reads it
Bind(v, F(_)) == CHOOSE r \in {F(x) : x \in {v}} : TRUE

IsOk(r) == r.kind = "ok"
IsErr(r) == r.kind = "err"

\* the contract's own principal, (as-contract tx-sender)
Pool == "pool"

\* one call of a token's transfer function
Xfer(token, amount, from, to) ==
  [token |-> token, amount |-> amount, from |-> from, to |-> to]

\* the calls of x that moved tokens: a response other than ok after transfer
\* calls comes from the unwrap! of the last of them, which moved nothing
Moved(r, x) == IF IsOk(r) THEN x ELSE SubSeq(x, 1, Len(x) - 1)

\* what a call leaves: the data-vars, the response, the transfer calls it
\* made, in order (the last of them is the one that failed, if one did), and
\* those of them whose movement of tokens stands
RetX(s, r, x) == [st |-> s, res |-> r, xfers |-> x, kept |-> Moved(r, x)]

Ret(s, r) == RetX(s, r, <<>>)

\* variant: the writes made before an early return are kept
ExecuteWithoutRollback(s, out) == out

\* variant: a call that does not return ok loses its writes to the data-vars
\* but not the token movements made before it failed
ExecuteKeepingTransfers(s, out) ==
  IF IsOk(out.res) THEN out ELSE [out EXCEPT !.st = s]

\* a public function commits its writes only when it returns ok; the token
\* movements of the calls it made are writes like its own
ExecuteAsTransaction(s, out) ==
  IF IsOk(out.res) THEN out ELSE [out EXCEPT !.st = s, !.kept = <<>>]

\* the token contract is external: which leg fails is an input
transfer(fail, leg) == fail # leg

get_lp_balance(s, user) == s.lp_balances[user]

get_user_liquidity(s, user) ==
  LET balance == get_lp_balance(s, user)
      supply == s.total_supply
      rx == s.reserve_x
      ry == s.reserve_y
  IN IF supply = 0 \/ balance = 0 THEN [x |-> 0, y |-> 0, shares |-> 0]
     ELSE [x |-> (balance * rx) \div supply,
           y |-> (balance * ry) \div supply,
           shares |-> balance]

\* ------------------------------------------------------------ wide unsigned
\* Clarity's uint has 128 bits; the values of this model that do not fit the
\* 32-bit machine integers of TLC are kept as sequences of base-W digits, least
\* significant first, without leading zero digits (<<>> is zero).
W == 10000

RECURSIVE wide(_)
wide(n) == IF n = 0 THEN <<>> ELSE <<n % W>> \o wide(n \div W)

RECURSIVE narrow(_)
narrow(a) == IF a = <<>> THEN 0 ELSE Head(a) + W * narrow(Tail(a))

RECURSIVE wtrim(_)
wtrim(a) ==
  IF a = <<>> THEN <<>>
  ELSE IF a[Len(a)] = 0 THEN wtrim(SubSeq(a, 1, Len(a) - 1))
  ELSE a

wdigit(a) == IF a = <<>> THEN 0 ELSE Head(a)
wrest(a) == IF a = <<>> THEN <<>> ELSE Tail(a)

\* a + b + carry
RECURSIVE wadd_c(_, _, _)
wadd_c(a, b, c) ==
  IF a = <<>> /\ b = <<>> THEN (IF c = 0 THEN <<>> ELSE <<c>>)
  ELSE LET d == wdigit(a) + wdigit(b) + c
       IN <<d % W>> \o wadd_c(wrest(a), wrest(b), d \div W)

wadd(a, b) == wadd_c(a, b, 0)

\* a - b - borrow, for a >= b + borrow
RECURSIVE wsub_b(_, _, _)
wsub_b(a, b, c) ==
  IF a = <<>> THEN <<>>
  ELSE LET d == Head(a) - wdigit(b) - c
       IN IF d < 0 THEN <<d + W>> \o wsub_b(Tail(a), wrest(b), 1)
          ELSE <<d>> \o wsub_b(Tail(a), wrest(b), 0)

wsub(a, b) == wtrim(wsub_b(a, b, 0))

\* a <= b
RECURSIVE wle(_, _)
wle(a, b) ==
  IF Len(a) # Len(b) THEN Len(a) < Len(b)
  ELSE IF a = <<>> THEN TRUE
  ELSE IF a[Len(a)] # b[Len(b)] THEN a[Len(a)] < b[Len(b)]
  ELSE wle(SubSeq(a, 1, Len(a) - 1), SubSeq(b, 1, Len(b) - 1))

\* a * m + carry, for a single digit m
RECURSIVE wmul_digit(_, _, _)
wmul_digit(a, m, c) ==
  IF a = <<>> THEN (IF c = 0 THEN <<>> ELSE <<c>>)
  ELSE LET d == Head(a) * m + c
       IN <<d % W>> \o wmul_digit(Tail(a), m, d \div W)

RECURSIVE wmul(_, _)
wmul(a, b) ==
  IF a = <<>> \/ b = <<>> THEN <<>>
  ELSE wtrim(wadd(wmul_digit(a, Head(b), 0), <<0>> \o wmul(a, Tail(b))))

\* the largest digit k in lo..hi with d * k <= r
RECURSIVE wquot_digit(_, _, _, _)
wquot_digit(r, d, lo, hi) ==
  IF lo = hi THEN lo
  ELSE Bind((lo + hi + 1) \div 2, LAMBDA mid :
         IF wle(wtrim(wmul_digit(d, mid, 0)), r)
           THEN wquot_digit(r, d, mid, hi)
           ELSE wquot_digit(r, d, lo, mid - 1))

\* quotient and remainder of n by d > 0, one digit of n at a time from the top
RECURSIVE wdivmod(_, _)
wdivmod(n, d) ==
  IF n = <<>> THEN [q |-> <<>>, r |-> <<>>]
  ELSE Bind(wdivmod(Tail(n), d), LAMBDA up :
       Bind(wtrim(<<Head(n)>> \o up.r), LAMBDA r0 :
       Bind(wquot_digit(r0, d, 0, W - 1), LAMBDA k :
         [q |-> wtrim(<<k>> \o up.q),
          r |-> wsub(r0, wtrim(wmul_digit(d, k, 0)))])))

wdiv(n, d) ==
  Bind(n, LAMBDA n1 : Bind(d, LAMBDA d1 : wdivmod(n1, d1).q))

\* sqrti on wide values
wsqrti_step(n, x) == wdiv(wadd(x, wdiv(n, x)), wide(2))

\* the last of sqrti's seven steps, for n > 3
wsqrti_x7(n) ==
  Bind(wdiv(n, wide(2)), LAMBDA x0 :
  Bind(wsqrti_step(n, x0), LAMBDA x1 :
  Bind(wsqrti_step(n, x1), LAMBDA x2 :
  Bind(wsqrti_step(n, x2), LAMBDA x3 :
  Bind(wsqrti_step(n, x3), LAMBDA x4 :
  Bind(wsqrti_step(n, x4), LAMBDA x5 :
  Bind(wsqrti_step(n, x5), LAMBDA x6 : wsqrti_step(n, x6))))))))

wsqrti(n) ==
  IF wle(n, wide(1)) THEN n
  ELSE IF wle(n, wide(3)) THEN wide(1)
  ELSE Bind(wsqrti_x7(n), LAMBDA x7 :
         IF wle(wmul(x7, x7), n) THEN x7 ELSE wsub(x7, wide(1)))

\* 2^128 - 1, the largest uint
UINT128_MAX == <<1455, 6821, 4317, 4607, 6337, 4634, 938, 6692, 2823, 340>>

\* a product or sum that does not fit a uint is a runtime fault
fits(a) == wle(a, UINT128_MAX)

\* sqrti(n) faults: the product (* x7 x7) of its last line does not fit
wsqrti_faults(n) ==
  /\ ~wle(n, wide(3))
  /\ Bind(wsqrti_x7(n), LAMBDA x7 : ~fits(wmul(x7, x7)))

\* quotient and remainder of a * b by c, for a < c, by doubling: no value
\* formed on the way exceeds 3 * c
RECURSIVE muldivmod(_, _, _)
muldivmod(a, b, c) ==
  IF b = 0 THEN [q |-> 0, r |-> 0]
  ELSE Bind(muldivmod(a, b \div 2, c), LAMBDA h :
         LET t == 2 * h.r + (b % 2) * a
         IN [q |-> 2 * h.q + t \div c, r |-> t % c])

\* (/ (* a b) c): the product is formed directly when both factors are
\* single digits, otherwise it is not formed and the quotient is built from
\* a = (a / c) * c + (a mod c)
muldiv(a, b, c) ==
  IF a < W /\ b < W THEN (a * b) \div c
  ELSE (a \div c) * b + muldivmod(a % c, b, c).q

\* ------------------------------------------------------------------- sqrti
sqrti_step(n, x) == (x + (n \div x)) \div 2

sqrti(n) ==
  IF n <= 1 THEN n
  ELSE IF n <= 3 THEN 1
  ELSE LET x0 == n \div 2
           x1 == sqrti_step(n, x0)
           x2 == sqrti_step(n, x1)
           x3 == sqrti_step(n, x2)
           x4 == sqrti_step(n, x3)
           x5 == sqrti_step(n, x4)
           x6 == sqrti_step(n, x5)
           x7 == sqrti_step(n, x6)
       IN IF x7 * x7 <= n THEN x7 ELSE x7 - 1

\* ------------------------------------------------------------------- swaps
\* variant: the output is quoted on the gross input, the pool receives the net
swap_x_for_y_body_gross_quote(s, sender, it, height) ==
  LET rx == s.reserve_x
      ry == s.reserve_y
      fee_addr == s.fee_recipient
      dx == it.amount
  IN IF fee_addr = None THEN Ret(s, Err(ERR_NOT_INITIALIZED))
     ELSE IF ~(height <= it.deadline) THEN Ret(s, Err(ERR_DEADLINE_EXPIRED))
     ELSE IF ~(dx > 0) THEN Ret(s, Err(ERR_ZERO_INPUT))
     ELSE IF ~(rx > 0 /\ ry > 0) THEN Ret(s, Err(ERR_ZERO_RESERVES))
     ELSE
       LET fee == (dx * FEE_BPS) \div BPS_DENOM
           dx_to_pool == dx - fee
           dy == muldiv(ry, dx, rx + dx_to_pool)
           t_fee == IF fee > 0 /\ sender # fee_addr
                      THEN <<Xfer("x", fee, sender, fee_addr)>> ELSE <<>>
           t_in == t_fee \o <<Xfer("x", dx_to_pool, sender, Pool)>>
           t_out == t_in \o <<Xfer("y", dy, Pool, it.recipient)>>
       IN IF ~(dy >= it.min_out) THEN Ret(s, Err(ERR_SLIPPAGE_EXCEEDED))
          ELSE IF ~(dy < ry) THEN Ret(s, Err(ERR_INSUFFICIENT_LIQUIDITY))
          ELSE IF fee > 0 /\ sender # fee_addr /\ ~transfer(it.fail, "fee")
            THEN RetX(s, Err(ERR_FEE_TRANSFER_FAILED), t_fee)
          ELSE IF ~transfer(it.fail, "in")
            THEN RetX(s, Err(ERR_TRANSFER_X_FAILED), t_in)
          ELSE IF ~transfer(it.fail, "out")
            THEN RetX(s, Err(ERR_TRANSFER_Y_FAILED), t_out)
          ELSE RetX([s EXCEPT !.reserve_x = rx + dx_to_pool,
                              !.reserve_y = ry - dy,
                              !.total_fees_x = s.total_fees_x + fee],
                    Ok([dx |-> dx, dy |-> dy, fee |-> fee,
                        recipient |-> it.recipient]), t_out)

\* item: [amount, min_out, recipient, deadline, fail]
\* variant: the fee is counted into the X reserve
swap_x_for_y_body_fee_in_reserve(s, sender, it, height) ==
  LET rx == s.reserve_x
      ry == s.reserve_y
      fee_addr == s.fee_recipient
      dx == it.amount
  IN IF fee_addr = None THEN Ret(s, Err(ERR_NOT_INITIALIZED))
     ELSE IF ~(height <= it.deadline) THEN Ret(s, Err(ERR_DEADLINE_EXPIRED))
     ELSE IF ~(dx > 0) THEN Ret(s, Err(ERR_ZERO_INPUT))
     ELSE IF ~(rx > 0 /\ ry > 0) THEN Ret(s, Err(ERR_ZERO_RESERVES))
     ELSE
       LET fee == (dx * FEE_BPS) \div BPS_DENOM
           dx_to_pool == dx - fee
           dy == muldiv(ry, dx_to_pool, rx + dx_to_pool)
           t_fee == IF fee > 0 /\ sender # fee_addr
                      THEN <<Xfer("x", fee, sender, fee_addr)>> ELSE <<>>
           t_in == t_fee \o <<Xfer("x", dx_to_pool, sender, Pool)>>
           t_out == t_in \o <<Xfer("y", dy, Pool, it.recipient)>>
       IN IF ~(dy >= it.min_out) THEN Ret(s, Err(ERR_SLIPPAGE_EXCEEDED))
          ELSE IF ~(dy < ry) THEN Ret(s, Err(ERR_INSUFFICIENT_LIQUIDITY))
          ELSE IF fee > 0 /\ sender # fee_addr /\ ~transfer(it.fail, "fee")
            THEN RetX(s, Err(ERR_FEE_TRANSFER_FAILED), t_fee)
          ELSE IF ~transfer(it.fail, "in")
            THEN RetX(s, Err(ERR_TRANSFER_X_FAILED), t_in)
          ELSE IF ~transfer(it.fail, "out")
            THEN RetX(s, Err(ERR_TRANSFER_Y_FAILED), t_out)
          ELSE RetX([s EXCEPT !.reserve_x = rx + dx,
                              !.reserve_y = ry - dy,
                              !.total_fees_x = s.total_fees_x + fee],
                    Ok([dx |-> dx, dy |-> dy, fee |-> fee,
                        recipient |-> it.recipient]), t_out)

\* variant: the deadline block itself is already too late
swap_x_for_y_body_deadline_exclusive(s, sender, it, height) ==
  LET rx == s.reserve_x
      ry == s.reserve_y
      fee_addr == s.fee_recipient
      dx == it.amount
  IN IF fee_addr = None THEN Ret(s, Err(ERR_NOT_INITIALIZED))
     ELSE IF ~(height < it.deadline) THEN Ret(s, Err(ERR_DEADLINE_EXPIRED))
     ELSE IF ~(dx > 0) THEN Ret(s, Err(ERR_ZERO_INPUT))
     ELSE IF ~(rx > 0 /\ ry > 0) THEN Ret(s, Err(ERR_ZERO_RESERVES))
     ELSE
       LET fee == (dx * FEE_BPS) \div BPS_DENOM
           dx_to_pool == dx - fee
           dy == muldiv(ry, dx_to_pool, rx + dx_to_pool)
           t_fee == IF fee > 0 /\ sender # fee_addr
                      THEN <<Xfer("x", fee, sender, fee_addr)>> ELSE <<>>
           t_in == t_fee \o <<Xfer("x", dx_to_pool, sender, Pool)>>
           t_out == t_in \o <<Xfer("y", dy, Pool, it.recipient)>>
       IN IF ~(dy >= it.min_out) THEN Ret(s, Err(ERR_SLIPPAGE_EXCEEDED))
          ELSE IF ~(dy < ry) THEN Ret(s, Err(ERR_INSUFFICIENT_LIQUIDITY))
          ELSE IF fee > 0 /\ sender # fee_addr /\ ~transfer(it.fail, "fee")
            THEN RetX(s, Err(ERR_FEE_TRANSFER_FAILED), t_fee)
          ELSE IF ~transfer(it.fail, "in")
            THEN RetX(s, Err(ERR_TRANSFER_X_FAILED), t_in)
          ELSE IF ~transfer(it.fail, "out")
            THEN RetX(s, Err(ERR_TRANSFER_Y_FAILED), t_out)
          ELSE RetX([s EXCEPT !.reserve_x = rx + dx_to_pool,
                              !.reserve_y = ry - dy,
                              !.total_fees_x = s.total_fees_x + fee],
                    Ok([dx |-> dx, dy |-> dy, fee |-> fee,
                        recipient |-> it.recipient]), t_out)

\* variant: a fee of zero is transferred too
swap_x_for_y_body_zero_fee_sent(s, sender, it, height) ==
  LET rx == s.reserve_x
      ry == s.reserve_y
      fee_addr == s.fee_recipient
      dx == it.amount
  IN IF fee_addr = None THEN Ret(s, Err(ERR_NOT_INITIALIZED))
     ELSE IF ~(height <= it.deadline) THEN Ret(s, Err(ERR_DEADLINE_EXPIRED))
     ELSE IF ~(dx > 0) THEN Ret(s, Err(ERR_ZERO_INPUT))
     ELSE IF ~(rx > 0 /\ ry > 0) THEN Ret(s, Err(ERR_ZERO_RESERVES))
     ELSE
       LET fee == (dx * FEE_BPS) \div BPS_DENOM
           dx_to_pool == dx - fee
           dy == muldiv(ry, dx_to_pool, rx + dx_to_pool)
           t_fee == IF sender # fee_addr
                      THEN <<Xfer("x", fee, sender, fee_addr)>> ELSE <<>>
           t_in == t_fee \o <<Xfer("x", dx_to_pool, sender, Pool)>>
           t_out == t_in \o <<Xfer("y", dy, Pool, it.recipient)>>
       IN IF ~(dy >= it.min_out) THEN Ret(s, Err(ERR_SLIPPAGE_EXCEEDED))
          ELSE IF ~(dy < ry) THEN Ret(s, Err(ERR_INSUFFICIENT_LIQUIDITY))
          ELSE IF sender # fee_addr /\ ~transfer(it.fail, "fee")
            THEN RetX(s, Err(ERR_FEE_TRANSFER_FAILED), t_fee)
          ELSE IF ~transfer(it.fail, "in")
            THEN RetX(s, Err(ERR_TRANSFER_X_FAILED), t_in)
          ELSE IF ~transfer(it.fail, "out")
            THEN RetX(s, Err(ERR_TRANSFER_Y_FAILED), t_out)
          ELSE RetX([s EXCEPT !.reserve_x = rx + dx_to_pool,
                              !.reserve_y = ry - dy,
                              !.total_fees_x = s.total_fees_x + fee],
                    Ok([dx |-> dx, dy |-> dy, fee |-> fee,
                        recipient |-> it.recipient]), t_out)

swap_x_for_y_body(s, sender, it, height) ==
  LET rx == s.reserve_x
      ry == s.reserve_y
      fee_addr == s.fee_recipient
      dx == it.amount
  IN IF fee_addr = None THEN Ret(s, Err(ERR_NOT_INITIALIZED))
     ELSE IF ~(height <= it.deadline) THEN Ret(s, Err(ERR_DEADLINE_EXPIRED))
     ELSE IF ~(dx > 0) THEN Ret(s, Err(ERR_ZERO_INPUT))
     ELSE IF ~(rx > 0 /\ ry > 0) THEN Ret(s, Err(ERR_ZERO_RESERVES))
     ELSE
       LET fee == (dx * FEE_BPS) \div BPS_DENOM
           dx_to_pool == dx - fee
           dy == muldiv(ry, dx_to_pool, rx + dx_to_pool)
           t_fee == IF fee > 0 /\ sender # fee_addr
                      THEN <<Xfer("x", fee, sender, fee_addr)>> ELSE <<>>
           t_in == t_fee \o <<Xfer("x", dx_to_pool, sender, Pool)>>
           t_out == t_in \o <<Xfer("y", dy, Pool, it.recipient)>>
       IN IF ~(dy >= it.min_out) THEN Ret(s, Err(ERR_SLIPPAGE_EXCEEDED))
          ELSE IF ~(dy < ry) THEN Ret(s, Err(ERR_INSUFFICIENT_LIQUIDITY))
          ELSE IF fee > 0 /\ sender # fee_addr /\ ~transfer(it.fail, "fee")
            THEN RetX(s, Err(ERR_FEE_TRANSFER_FAILED), t_fee)
          ELSE IF ~transfer(it.fail, "in")
            THEN RetX(s, Err(ERR_TRANSFER_X_FAILED), t_in)
          ELSE IF ~transfer(it.fail, "out")
            THEN RetX(s, Err(ERR_TRANSFER_Y_FAILED), t_out)
          ELSE RetX([s EXCEPT !.reserve_x = rx + dx_to_pool,
                              !.reserve_y = ry - dy,
                              !.total_fees_x = s.total_fees_x + fee],
                    Ok([dx |-> dx, dy |-> dy, fee |-> fee,
                        recipient |-> it.recipient]), t_out)

swap_x_for_y(s, sender, it, height) ==
  ExecuteAsTransaction(s, swap_x_for_y_body(s, sender, it, height))

\* variant: the fee recipient is unwrapped after the three assertions
swap_y_for_x_body_deadline_first(s, sender, it, height) ==
  LET rx == s.reserve_x
      ry == s.reserve_y
      fee_addr == s.fee_recipient
      dy == it.amount
  IN IF ~(height <= it.deadline) THEN Ret(s, Err(ERR_DEADLINE_EXPIRED))
     ELSE IF ~(dy > 0) THEN Ret(s, Err(ERR_ZERO_INPUT))
     ELSE IF ~(rx > 0 /\ ry > 0) THEN Ret(s, Err(ERR_ZERO_RESERVES))
     ELSE IF fee_addr = None THEN Ret(s, Err(ERR_NOT_INITIALIZED))
     ELSE
       LET fee == (dy * FEE_BPS) \div BPS_DENOM
           dy_to_pool == dy - fee
           dx == muldiv(rx, dy_to_pool, ry + dy_to_pool)
           t_fee == IF fee > 0 /\ sender # fee_addr
                      THEN <<Xfer("y", fee, sender, fee_addr)>> ELSE <<>>
           t_in == t_fee \o <<Xfer("y", dy_to_pool, sender, Pool)>>
           t_out == t_in \o <<Xfer("x", dx, Pool, it.recipient)>>
       IN IF ~(dx >= it.min_out) THEN Ret(s, Err(ERR_SLIPPAGE_EXCEEDED))
          ELSE IF ~(dx < rx) THEN Ret(s, Err(ERR_INSUFFICIENT_LIQUIDITY))
          ELSE IF fee > 0 /\ sender # fee_addr /\ ~transfer(it.fail, "fee")
            THEN RetX(s, Err(ERR_FEE_TRANSFER_FAILED), t_fee)
          ELSE IF ~transfer(it.fail, "in")
            THEN RetX(s, Err(ERR_TRANSFER_Y_FAILED), t_in)
          ELSE IF ~transfer(it.fail, "out")
            THEN RetX(s, Err(ERR_TRANSFER_X_FAILED), t_out)
          ELSE RetX([s EXCEPT !.reserve_x = rx - dx,
                              !.reserve_y = ry + dy_to_pool,
                              !.total_fees_y = s.total_fees_y + fee],
                    Ok([dx |-> dx, dy |-> dy, fee |-> fee,
                        recipient |-> it.recipient]), t_out)

\* variant: the minimum output is not asserted
swap_y_for_x_body_no_slippage_check(s, sender, it, height) ==
  LET rx == s.reserve_x
      ry == s.reserve_y
      fee_addr == s.fee_recipient
      dy == it.amount
  IN IF fee_addr = None THEN Ret(s, Err(ERR_NOT_INITIALIZED))
     ELSE IF ~(height <= it.deadline) THEN Ret(s, Err(ERR_DEADLINE_EXPIRED))
     ELSE IF ~(dy > 0) THEN Ret(s, Err(ERR_ZERO_INPUT))
     ELSE IF ~(rx > 0 /\ ry > 0) THEN Ret(s, Err(ERR_ZERO_RESERVES))
     ELSE
       LET fee == (dy * FEE_BPS) \div BPS_DENOM
           dy_to_pool == dy - fee
           dx == muldiv(rx, dy_to_pool, ry + dy_to_pool)
           t_fee == IF fee > 0 /\ sender # fee_addr
                      THEN <<Xfer("y", fee, sender, fee_addr)>> ELSE <<>>
           t_in == t_fee \o <<Xfer("y", dy_to_pool, sender, Pool)>>
           t_out == t_in \o <<Xfer("x", dx, Pool, it.recipient)>>
       IN IF ~(dx < rx) THEN Ret(s, Err(ERR_INSUFFICIENT_LIQUIDITY))
          ELSE IF fee > 0 /\ sender # fee_addr /\ ~transfer(it.fail, "fee")
            THEN RetX(s, Err(ERR_FEE_TRANSFER_FAILED), t_fee)
          ELSE IF ~transfer(it.fail, "in")
            THEN RetX(s, Err(ERR_TRANSFER_Y_FAILED), t_in)
          ELSE IF ~transfer(it.fail, "out")
            THEN RetX(s, Err(ERR_TRANSFER_X_FAILED), t_out)
          ELSE RetX([s EXCEPT !.reserve_x = rx - dx,
                              !.reserve_y = ry + dy_to_pool,
                              !.total_fees_y = s.total_fees_y + fee],
                    Ok([dx |-> dx, dy |-> dy, fee |-> fee,
                        recipient |-> it.recipient]), t_out)

\* variant: the fee is transferred whoever the sender is
swap_y_for_x_body_fee_always_sent(s, sender, it, height) ==
  LET rx == s.reserve_x
      ry == s.reserve_y
      fee_addr == s.fee_recipient
      dy == it.amount
  IN IF fee_addr = None THEN Ret(s, Err(ERR_NOT_INITIALIZED))
     ELSE IF ~(height <= it.deadline) THEN Ret(s, Err(ERR_DEADLINE_EXPIRED))
     ELSE IF ~(dy > 0) THEN Ret(s, Err(ERR_ZERO_INPUT))
     ELSE IF ~(rx > 0 /\ ry > 0) THEN Ret(s, Err(ERR_ZERO_RESERVES))
     ELSE
       LET fee == (dy * FEE_BPS) \div BPS_DENOM
           dy_to_pool == dy - fee
           dx == muldiv(rx, dy_to_pool, ry + dy_to_pool)
           t_fee == IF fee > 0
                      THEN <<Xfer("y", fee, sender, fee_addr)>> ELSE <<>>
           t_in == t_fee \o <<Xfer("y", dy_to_pool, sender, Pool)>>
           t_out == t_in \o <<Xfer("x", dx, Pool, it.recipient)>>
       IN IF ~(dx >= it.min_out) THEN Ret(s, Err(ERR_SLIPPAGE_EXCEEDED))
          ELSE IF ~(dx < rx) THEN Ret(s, Err(ERR_INSUFFICIENT_LIQUIDITY))
          ELSE IF fee > 0 /\ ~transfer(it.fail, "fee")
            THEN RetX(s, Err(ERR_FEE_TRANSFER_FAILED), t_fee)
          ELSE IF ~transfer(it.fail, "in")
            THEN RetX(s, Err(ERR_TRANSFER_Y_FAILED), t_in)
          ELSE IF ~transfer(it.fail, "out")
            THEN RetX(s, Err(ERR_TRANSFER_X_FAILED), t_out)
          ELSE RetX([s EXCEPT !.reserve_x = rx - dx,
                              !.reserve_y = ry + dy_to_pool,
                              !.total_fees_y = s.total_fees_y + fee],
                    Ok([dx |-> dx, dy |-> dy, fee |-> fee,
                        recipient |-> it.recipient]), t_out)

swap_y_for_x_body(s, sender, it, height) ==
  LET rx == s.reserve_x
      ry == s.reserve_y
      fee_addr == s.fee_recipient
      dy == it.amount
  IN IF fee_addr = None THEN Ret(s, Err(ERR_NOT_INITIALIZED))
     ELSE IF ~(height <= it.deadline) THEN Ret(s, Err(ERR_DEADLINE_EXPIRED))
     ELSE IF ~(dy > 0) THEN Ret(s, Err(ERR_ZERO_INPUT))
     ELSE IF ~(rx > 0 /\ ry > 0) THEN Ret(s, Err(ERR_ZERO_RESERVES))
     ELSE
       LET fee == (dy * FEE_BPS) \div BPS_DENOM
           dy_to_pool == dy - fee
           dx == muldiv(rx, dy_to_pool, ry + dy_to_pool)
           t_fee == IF fee > 0 /\ sender # fee_addr
                      THEN <<Xfer("y", fee, sender, fee_addr)>> ELSE <<>>
           t_in == t_fee \o <<Xfer("y", dy_to_pool, sender, Pool)>>
           t_out == t_in \o <<Xfer("x", dx, Pool, it.recipient)>>
       IN IF ~(dx >= it.min_out) THEN Ret(s, Err(ERR_SLIPPAGE_EXCEEDED))
          ELSE IF ~(dx < rx) THEN Ret(s, Err(ERR_INSUFFICIENT_LIQUIDITY))
          ELSE IF fee > 0 /\ sender # fee_addr /\ ~transfer(it.fail, "fee")
            THEN RetX(s, Err(ERR_FEE_TRANSFER_FAILED), t_fee)
          ELSE IF ~transfer(it.fail, "in")
            THEN RetX(s, Err(ERR_TRANSFER_Y_FAILED), t_in)
          ELSE IF ~transfer(it.fail, "out")
            THEN RetX(s, Err(ERR_TRANSFER_X_FAILED), t_out)
          ELSE RetX([s EXCEPT !.reserve_x = rx - dx,
                              !.reserve_y = ry + dy_to_pool,
                              !.total_fees_y = s.total_fees_y + fee],
                    Ok([dx |-> dx, dy |-> dy, fee |-> fee,
                        recipient |-> it.recipient]), t_out)

swap_y_for_x(s, sender, it, height) ==
  ExecuteAsTransaction(s, swap_y_for_x_body(s, sender, it, height))
\* the response of initialize-pool with its transfers succeeding; the amounts
\* are given as digits and the shares are kept as digits: they and the
\* product of the amounts may exceed a machine integer
initialize_pool_wide(s, amount_x, amount_y) ==
  IF ~(s.reserve_x = 0 /\ s.reserve_y = 0) THEN Err(ERR_ALREADY_INITIALIZED)
  ELSE IF ~(amount_x # <<>> /\ amount_y # <<>>) THEN Err(ERR_ZERO_INPUT)
  ELSE
    Bind(wmul(amount_x, amount_y), LAMBDA n :
      IF ~fits(n) \/ wsqrti_faults(n) THEN Abort
      ELSE Bind(wsqrti(n), LAMBDA shares :
             IF wle(shares, wide(MINIMUM_LIQUIDITY)) THEN Err(ERR_MIN_LIQUIDITY)
             ELSE Ok([shares |-> shares, x |-> amount_x, y |-> amount_y])))

\* the same for amounts that are machine integers
initialize_pool_value(s, it) ==
  Bind(initialize_pool_wide(s, wide(it.amount_x), wide(it.amount_y)), LAMBDA r :
    IF IsOk(r)
      THEN Ok([shares |-> r.val.shares, x |-> it.amount_x, y |-> it.amount_y])
      ELSE r)

\* --------------------------------------------------------------- liquidity
\* item: [amount_x, amount_y, fail]
\* variant: the minimum liquidity is not asserted
initialize_pool_body_no_minimum(s, sender, it) ==
  IF ~(s.reserve_x = 0 /\ s.reserve_y = 0) THEN Ret(s, Err(ERR_ALREADY_INITIALIZED))
  ELSE IF ~(it.amount_x > 0 /\ it.amount_y > 0) THEN Ret(s, Err(ERR_ZERO_INPUT))
  ELSE
    LET shares == sqrti(it.amount_x * it.amount_y)
        s1 == [s EXCEPT !.fee_recipient = sender]
        t_x == <<Xfer("x", it.amount_x, sender, Pool)>>
        t_y == t_x \o <<Xfer("y", it.amount_y, sender, Pool)>>
    IN IF ~transfer(it.fail, "x") THEN RetX(s1, Err(ERR_TRANSFER_X_FAILED), t_x)
       ELSE IF ~transfer(it.fail, "y") THEN RetX(s1, Err(ERR_TRANSFER_Y_FAILED), t_y)
       ELSE RetX([s1 EXCEPT !.reserve_x = it.amount_x,
                            !.reserve_y = it.amount_y,
                            !.total_supply = shares,
                            !.lp_balances[sender] = shares],
                 Ok([shares |-> shares, x |-> it.amount_x, y |-> it.amount_y]),
                 t_y)

initialize_pool_body(s, sender, it) ==
  IF ~(s.reserve_x = 0 /\ s.reserve_y = 0) THEN Ret(s, Err(ERR_ALREADY_INITIALIZED))
  ELSE IF ~(it.amount_x > 0 /\ it.amount_y > 0) THEN Ret(s, Err(ERR_ZERO_INPUT))
  ELSE
    LET shares == sqrti(it.amount_x * it.amount_y)
        s1 == [s EXCEPT !.fee_recipient = sender]
        t_x == <<Xfer("x", it.amount_x, sender, Pool)>>
        t_y == t_x \o <<Xfer("y", it.amount_y, sender, Pool)>>
    IN IF ~(shares > MINIMUM_LIQUIDITY) THEN Ret(s, Err(ERR_MIN_LIQUIDITY))
       ELSE IF ~transfer(it.fail, "x") THEN RetX(s1, Err(ERR_TRANSFER_X_FAILED), t_x)
       ELSE IF ~transfer(it.fail, "y") THEN RetX(s1, Err(ERR_TRANSFER_Y_FAILED), t_y)
       ELSE RetX([s1 EXCEPT !.reserve_x = it.amount_x,
                            !.reserve_y = it.amount_y,
                            !.total_supply = shares,
                            !.lp_balances[sender] = shares],
                 Ok([shares |-> shares, x |-> it.amount_x, y |-> it.amount_y]),
                 t_y)

initialize_pool(s, sender, it) ==
  ExecuteAsTransaction(s, initialize_pool_body(s, sender, it))

\* variant: the caller's balance is overwritten with the new shares
add_liquidity_body_overwrite(s, sender, it) ==
  LET rx == s.reserve_x
      ry == s.reserve_y
      supply == s.total_supply
  IN IF ~(supply > 0) THEN Ret(s, Err(ERR_NOT_INITIALIZED))
     ELSE IF ~(it.amount_x > 0 /\ it.amount_y > 0) THEN Ret(s, Err(ERR_ZERO_INPUT))
     ELSE IF rx = 0 \/ ry = 0 THEN Ret(s, Abort)
     ELSE
       LET shares_from_x == (it.amount_x * supply) \div rx
           shares_from_y == (it.amount_y * supply) \div ry
           shares == IF shares_from_x < shares_from_y
                       THEN shares_from_x ELSE shares_from_y
           actual_x == (shares * rx) \div supply
           actual_y == (shares * ry) \div supply
           t_x == <<Xfer("x", actual_x, sender, Pool)>>
           t_y == t_x \o <<Xfer("y", actual_y, sender, Pool)>>
       IN IF ~(shares >= it.min_shares) THEN Ret(s, Err(ERR_SLIPPAGE_EXCEEDED))
          ELSE IF ~(shares > 0) THEN Ret(s, Err(ERR_ZERO_SHARES))
          ELSE IF ~transfer(it.fail, "x") THEN RetX(s, Err(ERR_TRANSFER_X_FAILED), t_x)
          ELSE IF ~transfer(it.fail, "y") THEN RetX(s, Err(ERR_TRANSFER_Y_FAILED), t_y)
          ELSE RetX([s EXCEPT !.reserve_x = rx + actual_x,
                              !.reserve_y = ry + actual_y,
                              !.total_supply = supply + shares,
                              !.lp_balances[sender] = shares],
                    Ok([shares |-> shares, x |-> actual_x, y |-> actual_y]), t_y)

\* item: [amount_x, amount_y, min_shares, fail]
\* variant: the larger of the two share amounts is minted
add_liquidity_body_larger_side(s, sender, it) ==
  LET rx == s.reserve_x
      ry == s.reserve_y
      supply == s.total_supply
  IN IF ~(supply > 0) THEN Ret(s, Err(ERR_NOT_INITIALIZED))
     ELSE IF ~(it.amount_x > 0 /\ it.amount_y > 0) THEN Ret(s, Err(ERR_ZERO_INPUT))
     ELSE IF rx = 0 \/ ry = 0 THEN Ret(s, Abort)
     ELSE
       LET shares_from_x == (it.amount_x * supply) \div rx
           shares_from_y == (it.amount_y * supply) \div ry
           shares == IF shares_from_x > shares_from_y
                       THEN shares_from_x ELSE shares_from_y
           actual_x == (shares * rx) \div supply
           actual_y == (shares * ry) \div supply
           t_x == <<Xfer("x", actual_x, sender, Pool)>>
           t_y == t_x \o <<Xfer("y", actual_y, sender, Pool)>>
       IN IF ~(shares >= it.min_shares) THEN Ret(s, Err(ERR_SLIPPAGE_EXCEEDED))
          ELSE IF ~(shares > 0) THEN Ret(s, Err(ERR_ZERO_SHARES))
          ELSE IF ~transfer(it.fail, "x") THEN RetX(s, Err(ERR_TRANSFER_X_FAILED), t_x)
          ELSE IF ~transfer(it.fail, "y") THEN RetX(s, Err(ERR_TRANSFER_Y_FAILED), t_y)
          ELSE RetX([s EXCEPT !.reserve_x = rx + actual_x,
                              !.reserve_y = ry + actual_y,
                              !.total_supply = supply + shares,
                              !.lp_balances[sender] =
                                  get_lp_balance(s, sender) + shares],
                    Ok([shares |-> shares, x |-> actual_x, y |-> actual_y]), t_y)

\* variant: the shares are not asserted to be positive
add_liquidity_body_zero_shares_allowed(s, sender, it) ==
  LET rx == s.reserve_x
      ry == s.reserve_y
      supply == s.total_supply
  IN IF ~(supply > 0) THEN Ret(s, Err(ERR_NOT_INITIALIZED))
     ELSE IF ~(it.amount_x > 0 /\ it.amount_y > 0) THEN Ret(s, Err(ERR_ZERO_INPUT))
     ELSE IF rx = 0 \/ ry = 0 THEN Ret(s, Abort)
     ELSE
       LET shares_from_x == (it.amount_x * supply) \div rx
           shares_from_y == (it.amount_y * supply) \div ry
           shares == IF shares_from_x < shares_from_y
                       THEN shares_from_x ELSE shares_from_y
           actual_x == (shares * rx) \div supply
           actual_y == (shares * ry) \div supply
           t_x == <<Xfer("x", actual_x, sender, Pool)>>
           t_y == t_x \o <<Xfer("y", actual_y, sender, Pool)>>
       IN IF ~(shares >= it.min_shares) THEN Ret(s, Err(ERR_SLIPPAGE_EXCEEDED))
          ELSE IF ~transfer(it.fail, "x") THEN RetX(s, Err(ERR_TRANSFER_X_FAILED), t_x)
          ELSE IF ~transfer(it.fail, "y") THEN RetX(s, Err(ERR_TRANSFER_Y_FAILED), t_y)
          ELSE RetX([s EXCEPT !.reserve_x = rx + actual_x,
                              !.reserve_y = ry + actual_y,
                              !.total_supply = supply + shares,
                              !.lp_balances[sender] =
                                  get_lp_balance(s, sender) + shares],
                    Ok([shares |-> shares, x |-> actual_x, y |-> actual_y]), t_y)
\* variant: the new shares are credited to the fee recipient
add_liquidity_body_credits_recipient(s, sender, it) ==
  LET rx == s.reserve_x
      ry == s.reserve_y
      supply == s.total_supply
  IN IF ~(supply > 0) THEN Ret(s, Err(ERR_NOT_INITIALIZED))
     ELSE IF ~(it.amount_x > 0 /\ it.amount_y > 0) THEN Ret(s, Err(ERR_ZERO_INPUT))
     ELSE IF rx = 0 \/ ry = 0 THEN Ret(s, Abort)
     ELSE
       LET shares_from_x == (it.amount_x * supply) \div rx
           shares_from_y == (it.amount_y * supply) \div ry
           shares == IF shares_from_x < shares_from_y
                       THEN shares_from_x ELSE shares_from_y
           actual_x == (shares * rx) \div supply
           actual_y == (shares * ry) \div supply
           t_x == <<Xfer("x", actual_x, sender, Pool)>>
           t_y == t_x \o <<Xfer("y", actual_y, sender, Pool)>>
       IN IF ~(shares >= it.min_shares) THEN Ret(s, Err(ERR_SLIPPAGE_EXCEEDED))
          ELSE IF ~(shares > 0) THEN Ret(s, Err(ERR_ZERO_SHARES))
          ELSE IF ~transfer(it.fail, "x") THEN RetX(s, Err(ERR_TRANSFER_X_FAILED), t_x)
          ELSE IF ~transfer(it.fail, "y") THEN RetX(s, Err(ERR_TRANSFER_Y_FAILED), t_y)
          ELSE RetX([s EXCEPT !.reserve_x = rx + actual_x,
                              !.reserve_y = ry + actual_y,
                              !.total_supply = supply + shares,
                              !.lp_balances[s.fee_recipient] =
                                  get_lp_balance(s, s.fee_recipient) + shares],
                    Ok([shares |-> shares, x |-> actual_x, y |-> actual_y]), t_y)

add_liquidity_body(s, sender, it) ==
  LET rx == s.reserve_x
      ry == s.reserve_y
      supply == s.total_supply
  IN IF ~(supply > 0) THEN Ret(s, Err(ERR_NOT_INITIALIZED))
     ELSE IF ~(it.amount_x > 0 /\ it.amount_y > 0) THEN Ret(s, Err(ERR_ZERO_INPUT))
     ELSE IF rx = 0 \/ ry = 0 THEN Ret(s, Abort)
     ELSE
       LET shares_from_x == (it.amount_x * supply) \div rx
           shares_from_y == (it.amount_y * supply) \div ry
           shares == IF shares_from_x < shares_from_y
                       THEN shares_from_x ELSE shares_from_y
           actual_x == (shares * rx) \div supply
           actual_y == (shares * ry) \div supply
           t_x == <<Xfer("x", actual_x, sender, Pool)>>
           t_y == t_x \o <<Xfer("y", actual_y, sender, Pool)>>
       IN IF ~(shares >= it.min_shares) THEN Ret(s, Err(ERR_SLIPPAGE_EXCEEDED))
          ELSE IF ~(shares > 0) THEN Ret(s, Err(ERR_ZERO_SHARES))
          ELSE IF ~transfer(it.fail, "x") THEN RetX(s, Err(ERR_TRANSFER_X_FAILED), t_x)
          ELSE IF ~transfer(it.fail, "y") THEN RetX(s, Err(ERR_TRANSFER_Y_FAILED), t_y)
          ELSE RetX([s EXCEPT !.reserve_x = rx + actual_x,
                              !.reserve_y = ry + actual_y,
                              !.total_supply = supply + shares,
                              !.lp_balances[sender] =
                                  get_lp_balance(s, sender) + shares],
                    Ok([shares |-> shares, x |-> actual_x, y |-> actual_y]), t_y)

add_liquidity(s, sender, it) ==
  ExecuteAsTransaction(s, add_liquidity_body(s, sender, it))

\* item: [shares, min_x, min_y, fail]
\* variant: the caller's LP balance is not asserted
remove_liquidity_body_no_balance_check(s, sender, it) ==
  LET rx == s.reserve_x
      ry == s.reserve_y
      supply == s.total_supply
      user_balance == get_lp_balance(s, sender)
      shares == it.shares
  IN IF ~(supply > 0) THEN Ret(s, Err(ERR_NOT_INITIALIZED))
     ELSE IF ~(shares > 0) THEN Ret(s, Err(ERR_ZERO_INPUT))
     ELSE
       LET amount_x == (shares * rx) \div supply
           amount_y == (shares * ry) \div supply
           t_x == <<Xfer("x", amount_x, Pool, sender)>>
           t_y == t_x \o <<Xfer("y", amount_y, Pool, sender)>>
       IN IF ~(amount_x >= it.min_x) THEN Ret(s, Err(ERR_SLIPPAGE_EXCEEDED))
          ELSE IF ~(amount_y >= it.min_y) THEN Ret(s, Err(ERR_SLIPPAGE_EXCEEDED))
          ELSE IF ~transfer(it.fail, "x") THEN RetX(s, Err(ERR_TRANSFER_X_FAILED), t_x)
          ELSE IF ~transfer(it.fail, "y") THEN RetX(s, Err(ERR_TRANSFER_Y_FAILED), t_y)
          ELSE IF amount_x > rx \/ amount_y > ry \/ shares > supply
            THEN RetX(s, Abort, t_y)
          ELSE RetX([s EXCEPT !.reserve_x = rx - amount_x,
                              !.reserve_y = ry - amount_y,
                              !.total_supply = supply - shares,
                              !.lp_balances[sender] = user_balance - shares],
                    Ok([shares |-> shares, x |-> amount_x, y |-> amount_y]), t_y)

\* variant: the amounts paid out are rounded up
remove_liquidity_body_rounded_up(s, sender, it) ==
  LET rx == s.reserve_x
      ry == s.reserve_y
      supply == s.total_supply
      user_balance == get_lp_balance(s, sender)
      shares == it.shares
  IN IF ~(supply > 0) THEN Ret(s, Err(ERR_NOT_INITIALIZED))
     ELSE IF ~(shares > 0) THEN Ret(s, Err(ERR_ZERO_INPUT))
     ELSE IF ~(user_balance >= shares) THEN Ret(s, Err(ERR_INSUFFICIENT_LP_BALANCE))
     ELSE
       LET amount_x == (shares * rx + supply - 1) \div supply
           amount_y == (shares * ry + supply - 1) \div supply
           t_x == <<Xfer("x", amount_x, Pool, sender)>>
           t_y == t_x \o <<Xfer("y", amount_y, Pool, sender)>>
       IN IF ~(amount_x >= it.min_x) THEN Ret(s, Err(ERR_SLIPPAGE_EXCEEDED))
          ELSE IF ~(amount_y >= it.min_y) THEN Ret(s, Err(ERR_SLIPPAGE_EXCEEDED))
          ELSE IF ~transfer(it.fail, "x") THEN RetX(s, Err(ERR_TRANSFER_X_FAILED), t_x)
          ELSE IF ~transfer(it.fail, "y") THEN RetX(s, Err(ERR_TRANSFER_Y_FAILED), t_y)
          ELSE IF amount_x > rx \/ amount_y > ry \/ shares > supply
            THEN RetX(s, Abort, t_y)
          ELSE RetX([s EXCEPT !.reserve_x = rx - amount_x,
                              !.reserve_y = ry - amount_y,
                              !.total_supply = supply - shares,
                              !.lp_balances[sender] = user_balance - shares],
                    Ok([shares |-> shares, x |-> amount_x, y |-> amount_y]), t_y)

\* variant: a withdrawal clears the recorded fees
remove_liquidity_body_fees_cleared(s, sender, it) ==
  LET rx == s.reserve_x
      ry == s.reserve_y
      supply == s.total_supply
      user_balance == get_lp_balance(s, sender)
      shares == it.shares
  IN IF ~(supply > 0) THEN Ret(s, Err(ERR_NOT_INITIALIZED))
     ELSE IF ~(shares > 0) THEN Ret(s, Err(ERR_ZERO_INPUT))
     ELSE IF ~(user_balance >= shares) THEN Ret(s, Err(ERR_INSUFFICIENT_LP_BALANCE))
     ELSE
       LET amount_x == (shares * rx) \div supply
           amount_y == (shares * ry) \div supply
           t_x == <<Xfer("x", amount_x, Pool, sender)>>
           t_y == t_x \o <<Xfer("y", amount_y, Pool, sender)>>
       IN IF ~(amount_x >= it.min_x) THEN Ret(s, Err(ERR_SLIPPAGE_EXCEEDED))
          ELSE IF ~(amount_y >= it.min_y) THEN Ret(s, Err(ERR_SLIPPAGE_EXCEEDED))
          ELSE IF ~transfer(it.fail, "x") THEN RetX(s, Err(ERR_TRANSFER_X_FAILED), t_x)
          ELSE IF ~transfer(it.fail, "y") THEN RetX(s, Err(ERR_TRANSFER_Y_FAILED), t_y)
          ELSE IF amount_x > rx \/ amount_y > ry \/ shares > supply
            THEN RetX(s, Abort, t_y)
          ELSE RetX([s EXCEPT !.reserve_x = rx - amount_x,
                              !.reserve_y = ry - amount_y,
                              !.total_supply = supply - shares,
                              !.total_fees_x = 0,
                              !.total_fees_y = 0,
                              !.lp_balances[sender] = user_balance - shares],
                    Ok([shares |-> shares, x |-> amount_x, y |-> amount_y]), t_y)
\* variant: the shares redeemed stay in the caller's balance
remove_liquidity_body_balance_kept(s, sender, it) ==
  LET rx == s.reserve_x
      ry == s.reserve_y
      supply == s.total_supply
      user_balance == get_lp_balance(s, sender)
      shares == it.shares
  IN IF ~(supply > 0) THEN Ret(s, Err(ERR_NOT_INITIALIZED))
     ELSE IF ~(shares > 0) THEN Ret(s, Err(ERR_ZERO_INPUT))
     ELSE IF ~(user_balance >= shares) THEN Ret(s, Err(ERR_INSUFFICIENT_LP_BALANCE))
     ELSE
       LET amount_x == (shares * rx) \div supply
           amount_y == (shares * ry) \div supply
           t_x == <<Xfer("x", amount_x, Pool, sender)>>
           t_y == t_x \o <<Xfer("y", amount_y, Pool, sender)>>
       IN IF ~(amount_x >= it.min_x) THEN Ret(s, Err(ERR_SLIPPAGE_EXCEEDED))
          ELSE IF ~(amount_y >= it.min_y) THEN Ret(s, Err(ERR_SLIPPAGE_EXCEEDED))
          ELSE IF ~transfer(it.fail, "x") THEN RetX(s, Err(ERR_TRANSFER_X_FAILED), t_x)
          ELSE IF ~transfer(it.fail, "y") THEN RetX(s, Err(ERR_TRANSFER_Y_FAILED), t_y)
          ELSE IF amount_x > rx \/ amount_y > ry \/ shares > supply
            THEN RetX(s, Abort, t_y)
          ELSE RetX([s EXCEPT !.reserve_x = rx - amount_x,
                              !.reserve_y = ry - amount_y,
                              !.total_supply = supply - shares],
                    Ok([shares |-> shares, x |-> amount_x, y |-> amount_y]), t_y)

remove_liquidity_body(s, sender, it) ==
  LET rx == s.reserve_x
      ry == s.reserve_y
      supply == s.total_supply
      user_balance == get_lp_balance(s, sender)
      shares == it.shares
  IN IF ~(supply > 0) THEN Ret(s, Err(ERR_NOT_INITIALIZED))
     ELSE IF ~(shares > 0) THEN Ret(s, Err(ERR_ZERO_INPUT))
     ELSE IF ~(user_balance >= shares) THEN Ret(s, Err(ERR_INSUFFICIENT_LP_BALANCE))
     ELSE
       LET amount_x == (shares * rx) \div supply
           amount_y == (shares * ry) \div supply
           t_x == <<Xfer("x", amount_x, Pool, sender)>>
           t_y == t_x \o <<Xfer("y", amount_y, Pool, sender)>>
       IN IF ~(amount_x >= it.min_x) THEN Ret(s, Err(ERR_SLIPPAGE_EXCEEDED))
          ELSE IF ~(amount_y >= it.min_y) THEN Ret(s, Err(ERR_SLIPPAGE_EXCEEDED))
          ELSE IF ~transfer(it.fail, "x") THEN RetX(s, Err(ERR_TRANSFER_X_FAILED), t_x)
          ELSE IF ~transfer(it.fail, "y") THEN RetX(s, Err(ERR_TRANSFER_Y_FAILED), t_y)
          ELSE IF amount_x > rx \/ amount_y > ry \/ shares > supply
            THEN RetX(s, Abort, t_y)
          ELSE RetX([s EXCEPT !.reserve_x = rx - amount_x,
                              !.reserve_y = ry - amount_y,
                              !.total_supply = supply - shares,
                              !.lp_balances[sender] = user_balance - shares],
                    Ok([shares |-> shares, x |-> amount_x, y |-> amount_y]), t_y)

remove_liquidity(s, sender, it) ==
  ExecuteAsTransaction(s, remove_liquidity_body(s, sender, it))

\* -------------------------------------------------------------------- bulk
bulk_swap_x_for_y_internal(s, sender, swap_data, height) ==
  swap_x_for_y(s, sender, swap_data, height)

bulk_swap_y_for_x_internal(s, sender, swap_data, height) ==
  swap_y_for_x(s, sender, swap_data, height)

bulk_add_liquidity_internal(s, sender, liquidity_data) ==
  add_liquidity(s, sender, liquidity_data)

bulk_remove_liquidity_internal(s, sender, removal_data) ==
  remove_liquidity(s, sender, removal_data)

BulkOps == {"bulk-swap-x-for-y", "bulk-swap-y-for-x",
            "bulk-add-liquidity", "bulk-remove-liquidity"}

internal(op, s, sender, it, height) ==
  CASE op = "bulk-swap-x-for-y" -> bulk_swap_x_for_y_internal(s, sender, it, height)
    [] op = "bulk-swap-y-for-x" -> bulk_swap_y_for_x_internal(s, sender, it, height)
    [] op = "bulk-add-liquidity" -> bulk_add_liquidity_internal(s, sender, it)
    [] op = "bulk-remove-liquidity" -> bulk_remove_liquidity_internal(s, sender, it)

\* variant: every item is applied to the state the call started from
RECURSIVE map_unthreaded(_, _, _, _, _)
map_unthreaded(op, s, sender, items, height) ==
  IF items = <<>>
    THEN [st |-> s, vals |-> <<>>, mid |-> <<>>, abort |-> FALSE,
          xfers |-> <<>>, kept |-> <<>>]
    ELSE Bind(internal(op, s, sender, Head(items), height), LAMBDA o :
         Bind(map_unthreaded(op, s, sender, Tail(items), height), LAMBDA rest :
           [st |-> IF Tail(items) = <<>> THEN o.st ELSE rest.st,
            vals |-> <<o.res>> \o rest.vals,
            mid |-> <<o.st>> \o rest.mid, abort |-> FALSE,
            xfers |-> o.xfers \o rest.xfers, kept |-> o.kept \o rest.kept]))

\* (map f items): f is applied to the items in list order, each application
\* seeing the writes of the one before; the value is the list of responses.
\* mid lists the pool state after each item, xfers the transfer calls made.
RECURSIVE map(_, _, _, _, _)
map(op, s, sender, items, height) ==
  IF items = <<>>
    THEN [st |-> s, vals |-> <<>>, mid |-> <<>>, abort |-> FALSE,
          xfers |-> <<>>, kept |-> <<>>]
    ELSE Bind(internal(op, s, sender, Head(items), height), LAMBDA o :
           IF o.res.kind = "abort"
             THEN [st |-> s, vals |-> <<>>, mid |-> <<>>, abort |-> TRUE,
                   xfers |-> o.xfers, kept |-> <<>>]
             ELSE Bind(map(op, o.st, sender, Tail(items), height), LAMBDA rest :
                    [st |-> rest.st, vals |-> <<o.res>> \o rest.vals,
                     mid |-> <<o.st>> \o rest.mid, abort |-> rest.abort,
                     xfers |-> o.xfers \o rest.xfers,
                     kept |-> o.kept \o rest.kept]))

\* variant: the list length is not checked
bulk_body_no_length_check(op, s, sender, items, height) ==
  Bind(map(op, s, sender, items, height), LAMBDA m :
    IF m.abort THEN RetX(s, Abort, m.xfers)
    ELSE [RetX(m.st, Ok(m.vals), m.xfers) EXCEPT !.kept = m.kept])

bulk_body(op, s, sender, items, height) ==
  IF ~(Len(items) > 0) THEN Ret(s, Err(ERR_ZERO_INPUT))
  ELSE Bind(map(op, s, sender, items, height), LAMBDA m :
         IF m.abort THEN RetX(s, Abort, m.xfers)
         ELSE [RetX(m.st, Ok(m.vals), m.xfers) EXCEPT !.kept = m.kept])

bulk_swap_x_for_y(s, sender, swaps, height) ==
  ExecuteAsTransaction(s, bulk_body("bulk-swap-x-for-y", s, sender, swaps, height))

bulk_swap_y_for_x(s, sender, swaps, height) ==
  ExecuteAsTransaction(s, bulk_body("bulk-swap-y-for-x", s, sender, swaps, height))

bulk_add_liquidity(s, sender, liquidity_additions) ==
  ExecuteAsTransaction(s, bulk_body("bulk-add-liquidity", s, sender, liquidity_additions, 0))

bulk_remove_liquidity(s, sender, liquidity_removals) ==
  ExecuteAsTransaction(s, bulk_body("bulk-remove-liquidity", s, sender, liquidity_removals, 0))

bulk(op, s, sender, items, height) ==
  CASE op = "bulk-swap-x-for-y" -> bulk_swap_x_for_y(s, sender, items, height)
    [] op = "bulk-swap-y-for-x" -> bulk_swap_y_for_x(s, sender, items, height)
    [] op = "bulk-add-liquidity" -> bulk_add_liquidity(s, sender, items)
    [] op = "bulk-remove-liquidity" -> bulk_remove_liquidity(s, sender, items)

\* ------------------------------------------------------------ input domains
\* Callers of initialize-pool are all accounts; the later calls come from one
\* account, which is the fee recipient or not according to who initialized.
Callers == {"a1"}

SwapItem(a, m, d, f) ==
  [amount |-> a, min_out |-> m, recipient |-> "a2", deadline |-> d, fail |-> f]

\* every combination of amount, minimum and deadline; a failing transfer leg
\* is combined with the request that passes every check before the transfers,
\* and the deadline that is expired from the start with one request
SwapItems ==
  {it \in [amount : SwapAmounts, min_out : SwapMins, recipient : Recipients,
           deadline : Deadlines, fail : SwapFails] :
     /\ it.fail = "none" \/ (it.amount = 500 /\ it.min_out = 0 /\ it.deadline = MaxHeight)
     /\ it.deadline > 0 \/ (it.amount = 500 /\ it.min_out = 0)}

BulkSwapXItems ==
  {SwapItem(500, 0, MaxHeight, "none"), SwapItem(500, 400, MaxHeight, "none"),
   SwapItem(500, 0, 1, "none"), SwapItem(500, 0, MaxHeight, "out")}

BulkSwapYItems ==
  {SwapItem(500, 0, MaxHeight, "none"), SwapItem(500, 400, MaxHeight, "none"),
   SwapItem(500, 0, 1, "none")}

InitItems ==
  {it \in [amount_x : {a[1] : a \in InitAmounts}, amount_y : {a[2] : a \in InitAmounts},
           fail : LiqFails] :
     /\ <<it.amount_x, it.amount_y>> \in InitAmounts
     /\ it.fail = "none" \/ it.amount_x = 1000}

AddItem(a, m, f) ==
  [amount_x |-> a[1], amount_y |-> a[2], min_shares |-> m, fail |-> f]

AddItems ==
  {AddItem(a, m, f) : a \in AddAmounts, m \in AddMins, f \in {"none"}}
    \cup {AddItem(<<500, 1000>>, 0, f) : f \in LiqFails}

BulkAddItems ==
  {AddItem(<<500, 1000>>, 0, "none"), AddItem(<<500, 1000>>, 100000, "none")}

RemoveItem(sh, m, f) ==
  [shares |-> sh, min_x |-> m[1], min_y |-> m[2], fail |-> f]

RemoveShares(s, sender) ==
  {0, 100, get_lp_balance(s, sender), get_lp_balance(s, sender) + 1}

RemoveItems(s, sender) ==
  {RemoveItem(sh, m, "none") : sh \in RemoveShares(s, sender), m \in RemoveMins}
    \cup {RemoveItem(100, <<0, 0>>, f) : f \in LiqFails}

BulkRemoveItems(s, sender) ==
  {RemoveItem(100, <<0, 0>>, "none"),
   RemoveItem(get_lp_balance(s, sender), <<0, 0>>, "none")}

SeqsUpTo(S, n) == UNION {[1..k -> S] : k \in 0..n}

BulkItems(op, s, sender) ==
  CASE op = "bulk-swap-x-for-y" -> BulkSwapXItems
    [] op = "bulk-swap-y-for-x" -> BulkSwapYItems
    [] op = "bulk-add-liquidity" -> BulkAddItems
    [] op = "bulk-remove-liquidity" -> BulkRemoveItems(s, sender)

BulkLists(op, s, sender) == SeqsUpTo(BulkItems(op, s, sender), MaxBatch)

\* ----------------------------------------------------------------- actions
\* what the caller sees of the last mined call: the function, the kind of
\* response (ok / err / abort) and its error code, the number of items it
\* carried, how many of them returned ok, and the code of the first that did
\* not (a single call counts as one item)
NoCall == [op |-> "none", kind |-> "ok", code |-> 0, n |-> 0, oks |-> 0, ferr |-> 0]

RECURSIVE CountOk(_)
CountOk(rs) ==
  IF rs = <<>> THEN 0 ELSE (IF IsOk(Head(rs)) THEN 1 ELSE 0) + CountOk(Tail(rs))

RECURSIVE FirstErr(_)
FirstErr(rs) ==
  IF rs = <<>> THEN 0
  ELSE IF IsErr(Head(rs)) THEN Head(rs).val ELSE FirstErr(Tail(rs))

Code(r) == IF IsErr(r) THEN r.val ELSE 0

Init ==
  /\ fee_recipient = None
  /\ reserve_x = 0
  /\ reserve_y = 0
  /\ total_supply = 0
  /\ total_fees_x = 0
  /\ total_fees_y = 0
  /\ lp_balances = [a \in Accounts |-> 0]
  /\ stacks_block_height = 1
  /\ steps = 0
  /\ last = NoCall
  /\ custody_x = 0
  /\ custody_y = 0
  /\ Elsewhere

\* the tokens the transfers xs bring to the pool, less those they take from it
RECURSIVE NetToPool(_, _)
NetToPool(token, xs) ==
  IF xs = <<>> THEN 0
  ELSE LET t == Head(xs)
       IN (IF t.token = token /\ t.to = Pool THEN t.amount ELSE 0)
          - (IF t.token = token /\ t.from = Pool THEN t.amount ELSE 0)
          + NetToPool(token, Tail(xs))

\* the transaction is mined: its writes and its response become visible;
\* rs are the responses of the items the call carried
Commit(op, call, items_rs) ==
  \E out \in {call} :
    \E rs \in {items_rs} :
      /\ fee_recipient' = out.st.fee_recipient
      /\ reserve_x' = out.st.reserve_x
      /\ reserve_y' = out.st.reserve_y
      /\ total_supply' = out.st.total_supply
      /\ total_fees_x' = out.st.total_fees_x
      /\ total_fees_y' = out.st.total_fees_y
      /\ lp_balances' = out.st.lp_balances
      /\ steps' = steps + 1
      /\ last' = [op |-> op, kind |-> out.res.kind, code |-> Code(out.res),
                  n |-> Len(rs), oks |-> CountOk(rs), ferr |-> FirstErr(rs)]
      /\ custody_x' = custody_x + NetToPool("x", out.kept)
      /\ custody_y' = custody_y + NetToPool("y", out.kept)
      /\ UNCHANGED <<stacks_block_height, v2_vars, frontend_vars>>

CommitSingle(op, out) == Commit(op, out, <<out.res>>)

InitializePool ==
  /\ steps < MaxSteps
  /\ \E sender \in Accounts, it \in InitItems :
       CommitSingle("initialize-pool", initialize_pool(PoolState, sender, it))

SwapXForY ==
  /\ steps < MaxSteps
  /\ \E sender \in Callers, it \in SwapItems :
       CommitSingle("swap-x-for-y",
                    swap_x_for_y(PoolState, sender, it, stacks_block_height))

SwapYForX ==
  /\ steps < MaxSteps
  /\ \E sender \in Callers, it \in SwapItems :
       CommitSingle("swap-y-for-x",
                    swap_y_for_x(PoolState, sender, it, stacks_block_height))

AddLiquidity ==
  /\ steps < MaxSteps
  /\ \E sender \in Callers, it \in AddItems :
       CommitSingle("add-liquidity", add_liquidity(PoolState, sender, it))

RemoveLiquidity ==
  /\ steps < MaxSteps
  /\ \E sender \in Callers :
       \E it \in RemoveItems(PoolState, sender) :
         CommitSingle("remove-liquidity", remove_liquidity(PoolState, sender, it))

BulkCall(op) ==
  /\ steps < MaxSteps
  /\ \E sender \in Callers :
       \E items \in BulkLists(op, PoolState, sender) :
         Commit(op, bulk(op, PoolState, sender, items, stacks_block_height),
                map(op, PoolState, sender, items, stacks_block_height).vals)

BulkSwapXForY == BulkCall("bulk-swap-x-for-y")
BulkSwapYForX == BulkCall("bulk-swap-y-for-x")
BulkAddLiquidity == BulkCall("bulk-add-liquidity")
BulkRemoveLiquidity == BulkCall("bulk-remove-liquidity")

\* a block is mined: the chain height only grows
Tick ==
  /\ steps < MaxSteps
  /\ stacks_block_height < MaxHeight
  /\ stacks_block_height' = stacks_block_height + 1
  /\ steps' = steps + 1
  /\ UNCHANGED <<fee_recipient, reserve_x, reserve_y, total_supply,
                 total_fees_x, total_fees_y, lp_balances, last,
                 custody_x, custody_y, v2_vars, frontend_vars>>

Next ==
  \/ InitializePool
  \/ SwapXForY
  \/ SwapYForX
  \/ AddLiquidity
  \/ RemoveLiquidity
  \/ BulkSwapXForY
  \/ BulkSwapYForX
  \/ BulkAddLiquidity
  \/ BulkRemoveLiquidity
  \/ Tick

Spec == Init /\ [][Next]_vars
\* ---------------------------------------------------------------------------
\* Read-only quotes, applied to reserves and inputs drawn from bounded ranges

\* variant: the output is computed from the input before the fee
quote_x_for_y_gross(s, dx) ==
  LET rx == s.reserve_x
      ry == s.reserve_y
  IN IF ~(dx > 0) THEN Err(ERR_ZERO_INPUT)
     ELSE IF ~(rx > 0 /\ ry > 0) THEN Err(ERR_ZERO_RESERVES)
     ELSE
       LET fee == (dx * FEE_BPS) \div BPS_DENOM
           dx_to_pool == dx - fee
           dy == (ry * dx) \div (rx + dx_to_pool)
       IN IF ~(dy < ry) THEN Err(ERR_INSUFFICIENT_LIQUIDITY)
          ELSE Ok([dy |-> dy, fee |-> fee])

quote_x_for_y(s, dx) ==
  LET rx == s.reserve_x
      ry == s.reserve_y
  IN IF ~(dx > 0) THEN Err(ERR_ZERO_INPUT)
     ELSE IF ~(rx > 0 /\ ry > 0) THEN Err(ERR_ZERO_RESERVES)
     ELSE
       LET fee == (dx * FEE_BPS) \div BPS_DENOM
           dx_to_pool == dx - fee
           dy == (ry * dx_to_pool) \div (rx + dx_to_pool)
       IN IF ~(dy < ry) THEN Err(ERR_INSUFFICIENT_LIQUIDITY)
          ELSE Ok([dy |-> dy, fee |-> fee])
\* variant: the output is computed with the reserves of the other direction
quote_y_for_x_unmirrored(s, dy) ==
  LET rx == s.reserve_x
      ry == s.reserve_y
  IN IF ~(dy > 0) THEN Err(ERR_ZERO_INPUT)
     ELSE IF ~(rx > 0 /\ ry > 0) THEN Err(ERR_ZERO_RESERVES)
     ELSE
       LET fee == (dy * FEE_BPS) \div BPS_DENOM
           dy_to_pool == dy - fee
           dx == (ry * dy_to_pool) \div (rx + dy_to_pool)
       IN IF ~(dx < rx) THEN Err(ERR_INSUFFICIENT_LIQUIDITY)
          ELSE Ok([dx |-> dx, fee |-> fee])

quote_y_for_x(s, dy) ==
  LET rx == s.reserve_x
      ry == s.reserve_y
  IN IF ~(dy > 0) THEN Err(ERR_ZERO_INPUT)
     ELSE IF ~(rx > 0 /\ ry > 0) THEN Err(ERR_ZERO_RESERVES)
     ELSE
       LET fee == (dy * FEE_BPS) \div BPS_DENOM
           dy_to_pool == dy - fee
           dx == (rx * dy_to_pool) \div (ry + dy_to_pool)
       IN IF ~(dx < rx) THEN Err(ERR_INSUFFICIENT_LIQUIDITY)
          ELSE Ok([dx |-> dx, fee |-> fee])

\* the frontend's CONFIG.feeBps and CONFIG.bpsDenom
feeBps == 30
bpsDenom == 10000

\* Math.floor(p / q) for integers p and q > 0: while p is below 2^53 the
\* quotient of the two doubles rounds to an integer only if p / q is one
Math_floor(p, q) == p \div q

\* Math.round(p / q) for integers p and q > 0
Math_round(p, q) == (2 * p + q) \div (2 * q)

\* variant: the fee is rounded to the nearest unit
calculateQuote_fee_rounded(st, dx) ==
  IF dx <= 0 \/ st.reserveX <= 0 \/ st.reserveY <= 0 THEN 0
  ELSE
    LET fee == Math_round(dx * feeBps, bpsDenom)
        dxToPool == dx - fee
        numerator == st.reserveY * dxToPool
        denominator == st.reserveX + dxToPool
        dy == Math_floor(numerator, denominator)
    IN dy

\* st is the frontend's state object
calculateQuote(st, dx) ==
  IF dx <= 0 \/ st.reserveX <= 0 \/ st.reserveY <= 0 THEN 0
  ELSE
    LET fee == Math_floor(dx * feeBps, bpsDenom)
        dxToPool == dx - fee
        numerator == st.reserveY * dxToPool
        denominator == st.reserveX + dxToPool
        dy == Math_floor(numerator, denominator)
    IN dy

\* reserves: every small value, and two larger magnitudes
QuoteReserves == (1..MaxReserve) \cup {1000, 10000}

\* input amounts: every small value, the amounts around the first fee unit
\* (fee = 0 up to 333, 1 from 334), and large ones
QuoteInputs == (0..MaxQuoteIn) \cup {333, 334, 10000, 100000}

\* a pool with the drawn reserves, or the pool before its first deposit; the
\* page has fetched the pool's reserves
InitQuote ==
  /\ \/ reserve_x \in QuoteReserves /\ reserve_y \in QuoteReserves
        /\ fee_recipient = "a1"
        /\ total_supply = MINIMUM_LIQUIDITY + 1
        /\ lp_balances = [a \in Accounts |->
                            IF a = "a1" THEN MINIMUM_LIQUIDITY + 1 ELSE 0]
     \/ reserve_x = 0 /\ reserve_y = 0
        /\ fee_recipient = None
        /\ total_supply = 0
        /\ lp_balances = [a \in Accounts |-> 0]
  /\ total_fees_x = 0
  /\ total_fees_y = 0
  /\ stacks_block_height = 1
  /\ steps = 0
  /\ last = NoCall
  /\ custody_x = reserve_x
  /\ custody_y = reserve_y
  /\ total_fees_collected = 0
  /\ user_deposits = [a \in Accounts |-> 0]
  /\ state = [InitialState EXCEPT !.reserveX = reserve_x,
                                  !.reserveY = reserve_y]
  /\ tasks = EmptyBag

\* a read-only call: only its argument and response are recorded
Answer(op, arg, r) ==
  /\ last' = [op |-> op, kind |-> r.kind, code |-> Code(r), arg |-> arg,
              val |-> r.val]
  /\ UNCHANGED <<fee_recipient, reserve_x, reserve_y, total_supply,
                 total_fees_x, total_fees_y, lp_balances,
                 stacks_block_height, steps, custody_x, custody_y,
                 v2_vars, frontend_vars>>

QuoteXForY ==
  \E dx \in QuoteInputs : Answer("quote-x-for-y", dx, quote_x_for_y(PoolState, dx))

QuoteYForX ==
  \E dy \in QuoteInputs : Answer("quote-y-for-x", dy, quote_y_for_x(PoolState, dy))

\* arguments of sqrti: the small ones, the last one it answers exactly and the
\* first one it does not, and products of deposits at and above
\* MINIMUM_LIQUIDITY * MINIMUM_LIQUIDITY
SqrtInputs ==
  (0..MaxQuoteIn) \cup {9975, 9976, 1000000, 1000001, 1002001, 2000000}

Sqrti ==
  \E n \in SqrtInputs : Answer("sqrti", n, Ok(sqrti(n)))

\* amounts typed into the page: the quote inputs and a negative number
PageInputs == QuoteInputs \cup {-1}

CalculateQuote ==
  \E dx \in PageInputs : Answer("calculateQuote", dx, Ok(calculateQuote(state, dx)))

NextQuote ==
  \/ QuoteXForY
  \/ QuoteYForX
  \/ Sqrti
  \/ CalculateQuote

SpecQuote == InitQuote /\ [][NextQuote]_vars
\* ---------------------------------------------------------------------------
\* The pool of the repository's test scenario: the deployer opens it with
\* (100000000, 200000000) and another wallet swaps

Deployer == "a1"
Wallet1 == "a2"

FreshPool ==
  [fee_recipient |-> None, reserve_x |-> 0, reserve_y |-> 0, total_supply |-> 0,
   total_fees_x |-> 0, total_fees_y |-> 0, lp_balances |-> [a \in Accounts |-> 0]]

ScenarioDeposit == [amount_x |-> 100000000, amount_y |-> 200000000]

\* the swaps of the scenario: 10000000 or 20000000 in, with no minimum or a
\* minimum of 18000000 out, before the deadline
ScenarioSwapItems ==
  {SwapItem(a, m, MaxHeight, "none") : a \in {10000000, 20000000},
                                       m \in {0, 18000000}}

\* the state initialize-pool leaves; the shares do not fit a machine integer
\* and stay wide, no swap reads or writes them
InitScenario ==
  LET opened == initialize_pool_value(FreshPool, ScenarioDeposit)
  IN /\ IsOk(opened)
     /\ fee_recipient = Deployer
     /\ reserve_x = opened.val.x
     /\ reserve_y = opened.val.y
     /\ total_supply = opened.val.shares
     /\ lp_balances = [a \in Accounts |->
                         IF a = Deployer THEN opened.val.shares ELSE <<>>]
     /\ total_fees_x = 0
     /\ total_fees_y = 0
     /\ stacks_block_height = 1
     /\ steps = 0
     /\ last = NoCall
     /\ custody_x = opened.val.x
     /\ custody_y = opened.val.y
     /\ Elsewhere

ScenarioSwapXForY ==
  /\ steps < MaxSteps
  /\ \E it \in ScenarioSwapItems :
       CommitSingle("swap-x-for-y",
                    swap_x_for_y(PoolState, Wallet1, it, stacks_block_height))

ScenarioSwapYForX ==
  /\ steps < MaxSteps
  /\ \E it \in ScenarioSwapItems :
       CommitSingle("swap-y-for-x",
                    swap_y_for_x(PoolState, Wallet1, it, stacks_block_height))

NextScenario ==
  \/ ScenarioSwapXForY
  \/ ScenarioSwapYForX

SpecScenario == InitScenario /\ [][NextScenario]_vars
\* ---------------------------------------------------------------------------
\* The V3 pool contract: swaps and initialize-pool, no liquidity shares

\* the V3 contract's data-vars
V3State ==
  [fee_recipient |-> fee_recipient, reserve_x |-> reserve_x,
   reserve_y |-> reserve_y, total_fees_x |-> total_fees_x,
   total_fees_y |-> total_fees_y]

swap_x_for_y_v3_body(s, sender, it, height) ==
  LET rx == s.reserve_x
      ry == s.reserve_y
      fee_addr == s.fee_recipient
      dx == it.amount
  IN IF fee_addr = None THEN Ret(s, Err(ERR_NOT_INITIALIZED))
     ELSE IF ~(height <= it.deadline) THEN Ret(s, Err(ERR_DEADLINE_EXPIRED))
     ELSE IF ~(dx > 0) THEN Ret(s, Err(ERR_ZERO_INPUT))
     ELSE IF ~(rx > 0 /\ ry > 0) THEN Ret(s, Err(ERR_ZERO_RESERVES))
     ELSE
       LET fee == (dx * FEE_BPS) \div BPS_DENOM
           dx_to_pool == dx - fee
           dy == muldiv(ry, dx_to_pool, rx + dx_to_pool)
           t_fee == IF fee > 0 /\ ~(sender = fee_addr)
                      THEN <<Xfer("x", fee, sender, fee_addr)>> ELSE <<>>
           t_in == t_fee \o <<Xfer("x", dx_to_pool, sender, Pool)>>
           t_out == t_in \o <<Xfer("y", dy, Pool, it.recipient)>>
       IN IF ~(dy >= it.min_out) THEN Ret(s, Err(ERR_SLIPPAGE_EXCEEDED))
          ELSE IF ~(dy < ry) THEN Ret(s, Err(ERR_INSUFFICIENT_LIQUIDITY))
          ELSE IF fee > 0 /\ ~(sender = fee_addr) /\ ~transfer(it.fail, "fee")
            THEN RetX(s, Err(ERR_FEE_TRANSFER_FAILED), t_fee)
          ELSE IF ~transfer(it.fail, "in")
            THEN RetX(s, Err(ERR_TRANSFER_X_FAILED), t_in)
          ELSE IF ~transfer(it.fail, "out")
            THEN RetX(s, Err(ERR_TRANSFER_Y_FAILED), t_out)
          ELSE RetX([s EXCEPT !.reserve_x = rx + dx_to_pool,
                              !.reserve_y = ry - dy,
                              !.total_fees_x = s.total_fees_x + fee],
                    Ok([dx |-> dx, dy |-> dy, fee |-> fee,
                        recipient |-> it.recipient]), t_out)

swap_x_for_y_v3(s, sender, it, height) ==
  ExecuteAsTransaction(s, swap_x_for_y_v3_body(s, sender, it, height))

swap_y_for_x_v3_body(s, sender, it, height) ==
  LET rx == s.reserve_x
      ry == s.reserve_y
      fee_addr == s.fee_recipient
      dy == it.amount
  IN IF fee_addr = None THEN Ret(s, Err(ERR_NOT_INITIALIZED))
     ELSE IF ~(height <= it.deadline) THEN Ret(s, Err(ERR_DEADLINE_EXPIRED))
     ELSE IF ~(dy > 0) THEN Ret(s, Err(ERR_ZERO_INPUT))
     ELSE IF ~(rx > 0 /\ ry > 0) THEN Ret(s, Err(ERR_ZERO_RESERVES))
     ELSE
       LET fee == (dy * FEE_BPS) \div BPS_DENOM
           dy_to_pool == dy - fee
           dx == muldiv(rx, dy_to_pool, ry + dy_to_pool)
           t_fee == IF fee > 0 /\ ~(sender = fee_addr)
                      THEN <<Xfer("y", fee, sender, fee_addr)>> ELSE <<>>
           t_in == t_fee \o <<Xfer("y", dy_to_pool, sender, Pool)>>
           t_out == t_in \o <<Xfer("x", dx, Pool, it.recipient)>>
       IN IF ~(dx >= it.min_out) THEN Ret(s, Err(ERR_SLIPPAGE_EXCEEDED))
          ELSE IF ~(dx < rx) THEN Ret(s, Err(ERR_INSUFFICIENT_LIQUIDITY))
          ELSE IF fee > 0 /\ ~(sender = fee_addr) /\ ~transfer(it.fail, "fee")
            THEN RetX(s, Err(ERR_FEE_TRANSFER_FAILED), t_fee)
          ELSE IF ~transfer(it.fail, "in")
            THEN RetX(s, Err(ERR_TRANSFER_Y_FAILED), t_in)
          ELSE IF ~transfer(it.fail, "out")
            THEN RetX(s, Err(ERR_TRANSFER_X_FAILED), t_out)
          ELSE RetX([s EXCEPT !.reserve_x = rx - dx,
                              !.reserve_y = ry + dy_to_pool,
                              !.total_fees_y = s.total_fees_y + fee],
                    Ok([dx |-> dx, dy |-> dy, fee |-> fee,
                        recipient |-> it.recipient]), t_out)

swap_y_for_x_v3(s, sender, it, height) ==
  ExecuteAsTransaction(s, swap_y_for_x_v3_body(s, sender, it, height))

\* item: [amount_x, amount_y, fail]; the amounts are not compared with zero:
\* what a transfer of zero tokens answers is the token contract's choice
initialize_pool_v3_body(s, sender, it) ==
  IF ~(s.reserve_x = 0 /\ s.reserve_y = 0) THEN Ret(s, Err(ERR_ALREADY_INITIALIZED))
  ELSE
    LET s1 == [s EXCEPT !.fee_recipient = sender]
        t_x == <<Xfer("x", it.amount_x, sender, Pool)>>
        t_y == t_x \o <<Xfer("y", it.amount_y, sender, Pool)>>
    IN IF ~transfer(it.fail, "x") THEN RetX(s1, Err(ERR_TRANSFER_X_FAILED), t_x)
       ELSE IF ~transfer(it.fail, "y") THEN RetX(s1, Err(ERR_TRANSFER_Y_FAILED), t_y)
       ELSE RetX([s1 EXCEPT !.reserve_x = it.amount_x,
                            !.reserve_y = it.amount_y],
                 Ok([x |-> it.amount_x, y |-> it.amount_y,
                     fee_recipient |-> sender]), t_y)

initialize_pool_v3(s, sender, it) ==
  ExecuteAsTransaction(s, initialize_pool_v3_body(s, sender, it))

\* deposits of the older contracts: one or both amounts zero, or both positive
LegacyInitAmounts == {<<0, 0>>, <<0, 2000>>, <<1000, 0>>, <<1000, 2000>>}

LegacyInitItems ==
  {[amount_x |-> a[1], amount_y |-> a[2], fail |-> f] :
     a \in LegacyInitAmounts, f \in LiqFails}

\* the transaction is mined; the call's sender and arguments are recorded
CommitV3(op, sender, arg, call) ==
  \E out \in {call} :
    /\ fee_recipient' = out.st.fee_recipient
    /\ reserve_x' = out.st.reserve_x
    /\ reserve_y' = out.st.reserve_y
    /\ total_fees_x' = out.st.total_fees_x
    /\ total_fees_y' = out.st.total_fees_y
    /\ steps' = steps + 1
    /\ last' = [op |-> op, kind |-> out.res.kind, code |-> Code(out.res),
                sender |-> sender, arg |-> arg]
    /\ custody_x' = custody_x + NetToPool("x", out.kept)
    /\ custody_y' = custody_y + NetToPool("y", out.kept)
    /\ UNCHANGED <<total_supply, lp_balances, stacks_block_height,
                   v2_vars, frontend_vars>>

InitializePoolV3 ==
  /\ steps < MaxSteps
  /\ \E sender \in Accounts, it \in LegacyInitItems :
       CommitV3("initialize-pool", sender, it,
                initialize_pool_v3(V3State, sender, it))

SwapXForYV3 ==
  /\ steps < MaxSteps
  /\ \E sender \in Callers, it \in SwapItems :
       CommitV3("swap-x-for-y", sender, it,
                swap_x_for_y_v3(V3State, sender, it, stacks_block_height))

SwapYForXV3 ==
  /\ steps < MaxSteps
  /\ \E sender \in Callers, it \in SwapItems :
       CommitV3("swap-y-for-x", sender, it,
                swap_y_for_x_v3(V3State, sender, it, stacks_block_height))

NextV3 ==
  \/ InitializePoolV3
  \/ SwapXForYV3
  \/ SwapYForXV3
  \/ Tick

\* total_supply and lp_balances are no part of V3 and stay as Init has them
SpecV3 == Init /\ [][NextV3]_vars
\* ---------------------------------------------------------------------------
\* The V2 pool contract: one fee total, every transfer failure is one code

ERR_TRANSFER_FAILED == 105

\* the V2 contract's data-vars and map
V2State ==
  [fee_recipient |-> fee_recipient, reserve_x |-> reserve_x,
   reserve_y |-> reserve_y, total_fees_collected |-> total_fees_collected,
   user_deposits |-> user_deposits]

get_user_deposit(s, user) == s.user_deposits[user]

register_deposit_body(s, sender, amount) ==
  IF ~(amount > 0) THEN Ret(s, Err(ERR_ZERO_INPUT))
  ELSE Ret([s EXCEPT !.user_deposits[sender] = get_user_deposit(s, sender) + amount],
           Ok(amount))

register_deposit(s, sender, amount) ==
  ExecuteAsTransaction(s, register_deposit_body(s, sender, amount))

swap_x_for_y_v2_body(s, sender, it, height) ==
  LET rx == s.reserve_x
      ry == s.reserve_y
      fee_addr == s.fee_recipient
      dx == it.amount
  IN IF fee_addr = None THEN Ret(s, Err(ERR_NOT_INITIALIZED))
     ELSE IF ~(height <= it.deadline) THEN Ret(s, Err(ERR_DEADLINE_EXPIRED))
     ELSE IF ~(dx > 0) THEN Ret(s, Err(ERR_ZERO_INPUT))
     ELSE IF ~(rx > 0 /\ ry > 0) THEN Ret(s, Err(ERR_ZERO_RESERVES))
     ELSE
       LET fee == (dx * FEE_BPS) \div BPS_DENOM
           dx_to_pool == dx - fee
           dy == muldiv(ry, dx_to_pool, rx + dx_to_pool)
           t_fee == IF fee > 0
                      THEN <<Xfer("x", fee, sender, fee_addr)>> ELSE <<>>
           t_in == t_fee \o <<Xfer("x", dx_to_pool, sender, Pool)>>
           t_out == t_in \o <<Xfer("y", dy, Pool, it.recipient)>>
       IN IF ~(dy >= it.min_out) THEN Ret(s, Err(ERR_SLIPPAGE_EXCEEDED))
          ELSE IF ~(dy < ry) THEN Ret(s, Err(ERR_INSUFFICIENT_LIQUIDITY))
          ELSE IF fee > 0 /\ ~transfer(it.fail, "fee")
            THEN RetX(s, Err(ERR_TRANSFER_FAILED), t_fee)
          ELSE IF ~transfer(it.fail, "in")
            THEN RetX(s, Err(ERR_TRANSFER_FAILED), t_in)
          ELSE IF ~transfer(it.fail, "out")
            THEN RetX(s, Err(ERR_TRANSFER_FAILED), t_out)
          ELSE RetX([s EXCEPT !.reserve_x = rx + dx_to_pool,
                              !.reserve_y = ry - dy,
                              !.total_fees_collected =
                                 s.total_fees_collected + fee],
                    Ok([dx |-> dx, dy |-> dy, fee |-> fee,
                        recipient |-> it.recipient]), t_out)

swap_x_for_y_v2(s, sender, it, height) ==
  ExecuteAsTransaction(s, swap_x_for_y_v2_body(s, sender, it, height))

swap_y_for_x_v2_body(s, sender, it, height) ==
  LET rx == s.reserve_x
      ry == s.reserve_y
      fee_addr == s.fee_recipient
      dy == it.amount
  IN IF fee_addr = None THEN Ret(s, Err(ERR_NOT_INITIALIZED))
     ELSE IF ~(height <= it.deadline) THEN Ret(s, Err(ERR_DEADLINE_EXPIRED))
     ELSE IF ~(dy > 0) THEN Ret(s, Err(ERR_ZERO_INPUT))
     ELSE IF ~(rx > 0 /\ ry > 0) THEN Ret(s, Err(ERR_ZERO_RESERVES))
     ELSE
       LET fee == (dy * FEE_BPS) \div BPS_DENOM
           dy_to_pool == dy - fee
           dx == muldiv(rx, dy_to_pool, ry + dy_to_pool)
           t_fee == IF fee > 0
                      THEN <<Xfer("y", fee, sender, fee_addr)>> ELSE <<>>
           t_in == t_fee \o <<Xfer("y", dy_to_pool, sender, Pool)>>
           t_out == t_in \o <<Xfer("x", dx, Pool, it.recipient)>>
       IN IF ~(dx >= it.min_out) THEN Ret(s, Err(ERR_SLIPPAGE_EXCEEDED))
          ELSE IF ~(dx < rx) THEN Ret(s, Err(ERR_INSUFFICIENT_LIQUIDITY))
          ELSE IF fee > 0 /\ ~transfer(it.fail, "fee")
            THEN RetX(s, Err(ERR_TRANSFER_FAILED), t_fee)
          ELSE IF ~transfer(it.fail, "in")
            THEN RetX(s, Err(ERR_TRANSFER_FAILED), t_in)
          ELSE IF ~transfer(it.fail, "out")
            THEN RetX(s, Err(ERR_TRANSFER_FAILED), t_out)
          ELSE RetX([s EXCEPT !.reserve_x = rx - dx,
                              !.reserve_y = ry + dy_to_pool,
                              !.total_fees_collected =
                                 s.total_fees_collected + fee],
                    Ok([dy |-> dy, dx |-> dx, fee |-> fee,
                        recipient |-> it.recipient]), t_out)

swap_y_for_x_v2(s, sender, it, height) ==
  ExecuteAsTransaction(s, swap_y_for_x_v2_body(s, sender, it, height))

initialize_pool_v2_body(s, sender, it) ==
  IF ~(s.reserve_x = 0 /\ s.reserve_y = 0) THEN Ret(s, Err(ERR_ALREADY_INITIALIZED))
  ELSE
    LET s1 == [s EXCEPT !.fee_recipient = sender]
        t_x == <<Xfer("x", it.amount_x, sender, Pool)>>
        t_y == t_x \o <<Xfer("y", it.amount_y, sender, Pool)>>
    IN IF ~transfer(it.fail, "x") THEN RetX(s1, Err(ERR_TRANSFER_FAILED), t_x)
       ELSE IF ~transfer(it.fail, "y") THEN RetX(s1, Err(ERR_TRANSFER_FAILED), t_y)
       ELSE RetX([s1 EXCEPT !.reserve_x = it.amount_x,
                            !.reserve_y = it.amount_y],
                 Ok([x |-> it.amount_x, y |-> it.amount_y,
                     fee_recipient |-> sender]), t_y)

initialize_pool_v2(s, sender, it) ==
  ExecuteAsTransaction(s, initialize_pool_v2_body(s, sender, it))

DepositAmounts == {0, 500}

CommitV2(op, sender, arg, call) ==
  \E out \in {call} :
    /\ fee_recipient' = out.st.fee_recipient
    /\ reserve_x' = out.st.reserve_x
    /\ reserve_y' = out.st.reserve_y
    /\ total_fees_collected' = out.st.total_fees_collected
    /\ user_deposits' = out.st.user_deposits
    /\ steps' = steps + 1
    /\ last' = [op |-> op, kind |-> out.res.kind, code |-> Code(out.res),
                sender |-> sender, arg |-> arg]
    /\ custody_x' = custody_x + NetToPool("x", out.kept)
    /\ custody_y' = custody_y + NetToPool("y", out.kept)
    /\ UNCHANGED <<total_supply, lp_balances, total_fees_x, total_fees_y,
                   stacks_block_height, frontend_vars>>

InitializePoolV2 ==
  /\ steps < MaxSteps
  /\ \E sender \in Accounts, it \in LegacyInitItems :
       CommitV2("initialize-pool", sender, it,
                initialize_pool_v2(V2State, sender, it))

SwapXForYV2 ==
  /\ steps < MaxSteps
  /\ \E sender \in Callers, it \in SwapItems :
       CommitV2("swap-x-for-y", sender, it,
                swap_x_for_y_v2(V2State, sender, it, stacks_block_height))

SwapYForXV2 ==
  /\ steps < MaxSteps
  /\ \E sender \in Callers, it \in SwapItems :
       CommitV2("swap-y-for-x", sender, it,
                swap_y_for_x_v2(V2State, sender, it, stacks_block_height))

\* a deposit is registered once for each account
RegisterDeposit ==
  /\ steps < MaxSteps
  /\ \E sender \in Callers, amount \in DepositAmounts :
       /\ user_deposits[sender] = 0
       /\ CommitV2("register-deposit", sender, amount,
                   register_deposit(V2State, sender, amount))

NextV2 ==
  \/ InitializePoolV2
  \/ SwapXForYV2
  \/ SwapYForXV2
  \/ RegisterDeposit
  \/ Tick

SpecV2 == Init /\ [][NextV2]_vars
\* ---------------------------------------------------------------------------
\* Read-only quotes of the liquidity functions

\* variant: the amounts offered are quoted, not the amounts the shares cost
quote_add_liquidity_offered(s, amount_x, amount_y) ==
  LET rx == s.reserve_x
      ry == s.reserve_y
      supply == s.total_supply
  IN IF supply = 0
       THEN Ok([shares |-> sqrti(amount_x * amount_y),
                optimal_x |-> amount_x, optimal_y |-> amount_y])
     ELSE IF rx = 0 \/ ry = 0 THEN Abort
     ELSE
       LET shares_from_x == (amount_x * supply) \div rx
           shares_from_y == (amount_y * supply) \div ry
           shares == IF shares_from_x < shares_from_y
                       THEN shares_from_x ELSE shares_from_y
       IN Ok([shares |-> shares, optimal_x |-> amount_x,
              optimal_y |-> amount_y])

\* a division by a zero reserve is a runtime fault
quote_add_liquidity(s, amount_x, amount_y) ==
  LET rx == s.reserve_x
      ry == s.reserve_y
      supply == s.total_supply
  IN IF supply = 0
       THEN Ok([shares |-> sqrti(amount_x * amount_y),
                optimal_x |-> amount_x, optimal_y |-> amount_y])
     ELSE IF rx = 0 \/ ry = 0 THEN Abort
     ELSE
       LET shares_from_x == (amount_x * supply) \div rx
           shares_from_y == (amount_y * supply) \div ry
           shares == IF shares_from_x < shares_from_y
                       THEN shares_from_x ELSE shares_from_y
           optimal_x == (shares * rx) \div supply
           optimal_y == (shares * ry) \div supply
       IN Ok([shares |-> shares, optimal_x |-> optimal_x,
              optimal_y |-> optimal_y])

quote_remove_liquidity(s, shares) ==
  LET supply == s.total_supply
      rx == s.reserve_x
      ry == s.reserve_y
  IN IF ~(supply > 0) THEN Err(ERR_NOT_INITIALIZED)
     ELSE IF ~(shares > 0) THEN Err(ERR_ZERO_INPUT)
     ELSE Ok([amount_x |-> (shares * rx) \div supply,
              amount_y |-> (shares * ry) \div supply])
\* ---------------------------------------------------------------------------
\* The pool called through its single entry points only: a bulk call applies
\* these same functions item by item and reaches no state they do not reach

NextDirect ==
  \/ InitializePool
  \/ SwapXForY
  \/ SwapYForX
  \/ AddLiquidity
  \/ RemoveLiquidity
  \/ Tick

SpecDirect == Init /\ [][NextDirect]_vars
\* ---------------------------------------------------------------------------
\* First deposits of realistic size: the deployer opens the pool with amounts
\* of the order the repository's tests use and above, then another wallet swaps

\* (100000000, 200000000) as in the tests, and its mirror; 100000000000 of
\* each token, which is 1000 tokens of 8 decimals; a deposit without token x
LargeDeposits ==
  {[amount_x |-> wide(100000000), amount_y |-> wide(200000000)],
   [amount_x |-> wide(200000000), amount_y |-> wide(100000000)],
   [amount_x |-> wmul(wide(100000), wide(1000000)),
    amount_y |-> wmul(wide(100000), wide(1000000))],
   [amount_x |-> <<>>, amount_y |-> wide(200000000)]}

\* initialize-pool is mined, its transfers succeeding; the reserves of the
\* deposits that are accepted fit a machine integer
InitializePoolLarge ==
  /\ steps < MaxSteps
  /\ \E d \in LargeDeposits :
       \E r \in {initialize_pool_wide(PoolState, d.amount_x, d.amount_y)} :
         /\ IF IsOk(r)
              THEN /\ fee_recipient' = Deployer
                   /\ reserve_x' = narrow(r.val.x)
                   /\ reserve_y' = narrow(r.val.y)
                   /\ total_supply' = r.val.shares
                   /\ lp_balances' = [lp_balances EXCEPT ![Deployer] = r.val.shares]
                   /\ custody_x' = custody_x + narrow(r.val.x)
                   /\ custody_y' = custody_y + narrow(r.val.y)
              ELSE UNCHANGED <<fee_recipient, reserve_x, reserve_y, total_supply,
                               lp_balances, custody_x, custody_y>>
         /\ steps' = steps + 1
         /\ last' = [op |-> "initialize-pool", kind |-> r.kind, code |-> Code(r),
                     n |-> 1, oks |-> CountOk(<<r>>), ferr |-> FirstErr(<<r>>)]
         /\ UNCHANGED <<total_fees_x, total_fees_y, stacks_block_height,
                        v2_vars, frontend_vars>>

NextLarge ==
  \/ InitializePoolLarge
  \/ ScenarioSwapXForY
  \/ ScenarioSwapYForX
  \/ Tick

SpecLarge == Init /\ [][NextLarge]_vars
\* ---------------------------------------------------------------- frontend session
\* The page is single-threaded: a handler runs to its next await on the
\* wallet or the network, where it is kept in tasks as (function, position).
\* A function that returns hands over to its awaiting caller before any event
\* handler or reply is served, so both run in one step.

\* addresses a wallet may report
Addresses == {"SP1", "SP2"}
Session == "session"
UniversalProvider == "universalProvider"

\* async activations kept at once
MaxTasks == 3

\* balances the token contracts report for the wallet
WalletBalanceX == 500
WalletBalanceY == 700

\* reserves the page falls back to when the call fails
DefaultReserve == 1000000000

Task(fn, pc) == [fn |-> fn, pc |-> pc]
One(t) == SetToBag({t})
Fits(b) == BagCardinality(b) <= MaxTasks

\* init has registered the click listeners
Ready == \A t \in BagToSet(tasks) : t.fn # "init"

\* UniversalProvider.init has resolved: the provider's listeners and the
\* AppKit subscription exist
Subscribed == ~BagIn(Task("init", "providerInit"), tasks)

handleDisconnect(st) ==
  [st EXCEPT !.connected = FALSE, !.address = Null, !.session = Null,
             !.balanceX = 0, !.balanceY = 0]

\* replies to stx_getAddresses: an address, a response without one, a rejection
AddressReplies == Addresses \cup {"none", "reject"}
\* getStacksAddresses without its check that an address is known
getStacksAddresses_unchecked(st, r) ==
  IF r = "reject" THEN [state |-> st, thrown |-> TRUE]
  ELSE [state |-> IF r \in Addresses THEN [st EXCEPT !.address = r] ELSE st,
        thrown |-> FALSE]

\* getStacksAddresses from its reply on: the state and whether it threw
getStacksAddresses(st, r) ==
  IF r = "reject" THEN [state |-> st, thrown |-> TRUE]
  ELSE LET st1 == IF r \in Addresses THEN [st EXCEPT !.address = r] ELSE st
       IN  [state |-> st1, thrown |-> st1.address = Null]

\* replies of a read-only call over HTTP
FetchReplies == {"okay", "notOkay", "error"}

\* fetchBalances up to its first await
fetchBalances(st) ==
  IF st.address = Null THEN EmptyBag ELSE One(Task("fetchBalances", "X"))

\* fetchReserves up to its await
fetchReserves == One(Task("fetchReserves", "fetch"))

\* Promise.all([fetchBalances(), fetchReserves()])
Refresh(st) == fetchBalances(st) (+) fetchReserves

\* fetchReserves from its reply on
fetchReserves_reply(st, r) ==
  CASE r = "okay" -> [st EXCEPT !.reserveX = reserve_x, !.reserveY = reserve_y]
    [] r = "notOkay" -> st
    [] r = "error" -> [st EXCEPT !.reserveX = DefaultReserve,
                                 !.reserveY = DefaultReserve]

Frontend(t, st, started) ==
  /\ state' = st
  /\ tasks' = (tasks (-) One(t)) (+) started
  /\ Fits(tasks')
  /\ UNCHANGED <<fee_recipient, reserve_x, reserve_y, total_supply,
                 total_fees_x, total_fees_y, lp_balances,
                 stacks_block_height, steps, last, custody_x, custody_y,
                 v2_vars>>

\* an event handler or click: no activation is resumed
Handler(st, started) ==
  /\ state' = st
  /\ tasks' = tasks (+) started
  /\ Fits(tasks')
  /\ UNCHANGED <<fee_recipient, reserve_x, reserve_y, total_supply,
                 total_fees_x, total_fees_y, lp_balances,
                 stacks_block_height, steps, last, custody_x, custody_y,
                 v2_vars>>

\* initializeAppKit once UniversalProvider.init has resolved
InitializeAppKit ==
  LET t == Task("init", "providerInit") IN
  /\ BagIn(t, tasks)
  /\ \E session \in {Null, Session} :
       IF session # Null
       THEN Frontend(t, [state EXCEPT !.session = session,
                                      !.provider = UniversalProvider],
                     One(Task("init", "restoreSession")))
       ELSE Frontend(t, state, One(Task("init", "fetchReserves")))

\* restoreSession once stx_getAddresses has answered r
RestoreSession(r) ==
  LET t == Task("init", "restoreSession")
      g == getStacksAddresses(state, r)
      st == [g.state EXCEPT !.connected = TRUE]
  IN  /\ BagIn(t, tasks)
      /\ IF ~g.thrown
         THEN Frontend(t, st, One(Task("init", "refresh")) (+) Refresh(st))
         ELSE IF g.state.session # Null
         THEN Frontend(t, g.state, One(Task("init", "disconnect")))
         ELSE Frontend(t, handleDisconnect(g.state),
                       One(Task("init", "fetchReserves")))

\* restoreSession's Promise.all has settled; init goes on to fetchReserves
RestoreSessionRefreshed ==
  LET t == Task("init", "refresh") IN
  /\ BagIn(t, tasks)
  /\ \A u \in BagToSet(tasks) : u.fn \notin {"fetchBalances", "fetchReserves"}
  /\ Frontend(t, state, One(Task("init", "fetchReserves")))

\* disconnectWallet called by restoreSession, once disconnect() has settled
RestoreSessionDisconnected ==
  LET t == Task("init", "disconnect") IN
  /\ BagIn(t, tasks)
  /\ Frontend(t, handleDisconnect(state), One(Task("init", "fetchReserves")))

\* init's own fetchReserves has answered; the listeners are registered
InitFetchedReserves ==
  LET t == Task("init", "fetchReserves") IN
  /\ BagIn(t, tasks)
  /\ \E r \in FetchReplies :
       Frontend(t, fetchReserves_reply(state, r), EmptyBag)

\* the AppKit subscription reports a provider state
SubscribeProvider ==
  /\ Subscribed
  /\ \E isConnected \in BOOLEAN, address \in Addresses \cup {Null},
        session \in {Null, Session} :
       /\ ~isConnected => address = Null /\ session = Null
       /\ IF isConnected /\ address # Null
          THEN LET st == [state EXCEPT !.connected = TRUE,
                                       !.address = address,
                                       !.provider = UniversalProvider,
                                       !.session = session]
               IN  Handler(st, Refresh(st))
          ELSE IF ~isConnected /\ state.connected
          THEN Handler(handleDisconnect(state), EmptyBag)
          ELSE Handler(state, EmptyBag)

\* the wallet deletes the session
SessionDelete ==
  /\ Subscribed
  /\ Handler(handleDisconnect(state), EmptyBag)

\* click on connect (or on the swap button while not connected)
ConnectWallet ==
  /\ Ready
  /\ ~state.connected
  /\ \E open \in BOOLEAN :
       Handler(state, One(Task("connectWallet",
                               IF open THEN "open" ELSE "connect")))

\* appKit.open() has settled
ConnectWalletOpened ==
  LET t == Task("connectWallet", "open") IN
  /\ BagIn(t, tasks)
  /\ Frontend(t, state, EmptyBag)

\* universalProvider.connect() has settled
ConnectWalletConnected(resolved) ==
  LET t == Task("connectWallet", "connect") IN
  /\ BagIn(t, tasks)
  /\ IF resolved
     THEN Frontend(t, [state EXCEPT !.session = Session,
                                    !.provider = UniversalProvider],
                   One(Task("connectWallet", "getStacksAddresses")))
     ELSE Frontend(t, state, EmptyBag)

\* connectWallet once stx_getAddresses has answered r
ConnectWalletAddresses(r) ==
  LET t == Task("connectWallet", "getStacksAddresses")
      g == getStacksAddresses(state, r)
      st == [g.state EXCEPT !.connected = TRUE]
  IN  /\ BagIn(t, tasks)
      /\ IF ~g.thrown
         THEN Frontend(t, st, Refresh(st))
         ELSE Frontend(t, g.state, EmptyBag)

\* click on disconnect
DisconnectWallet ==
  /\ Ready
  /\ state.connected
  /\ IF state.session # Null
     THEN Handler(state, One(Task("disconnectWallet", "disconnect")))
     ELSE Handler(handleDisconnect(state), EmptyBag)

\* universalProvider.disconnect() has settled
DisconnectWalletDisconnected ==
  LET t == Task("disconnectWallet", "disconnect") IN
  /\ BagIn(t, tasks)
  /\ Frontend(t, handleDisconnect(state), EmptyBag)

\* fetchBalances once the call for token X has answered
FetchBalancesX ==
  LET t == Task("fetchBalances", "X") IN
  /\ BagIn(t, tasks)
  /\ \E r \in FetchReplies :
       LET st == IF r = "okay"
                 THEN [state EXCEPT !.balanceX = WalletBalanceX] ELSE state
       IN  IF r = "error" \/ st.address = Null
           THEN Frontend(t, st, EmptyBag)
           ELSE Frontend(t, st, One(Task("fetchBalances", "Y")))

\* fetchBalances once the call for token Y has answered
FetchBalancesY ==
  LET t == Task("fetchBalances", "Y") IN
  /\ BagIn(t, tasks)
  /\ \E r \in FetchReplies :
       Frontend(t, IF r = "okay"
                   THEN [state EXCEPT !.balanceY = WalletBalanceY] ELSE state,
                EmptyBag)

\* a fetchReserves started by Promise.all has answered
FetchReserves ==
  LET t == Task("fetchReserves", "fetch") IN
  /\ BagIn(t, tasks)
  /\ \E r \in FetchReplies :
       Frontend(t, fetchReserves_reply(state, r), EmptyBag)

\* click on swap while connected; the transaction is submitted and the
\* refresh timer set
ExecuteSwap ==
  /\ Ready
  /\ state.connected /\ state.address # Null
  /\ Handler(state, One(Task("executeSwap", "setTimeout")))

\* the refresh timer of a swap fires
ExecuteSwapRefresh ==
  LET t == Task("executeSwap", "setTimeout") IN
  /\ BagIn(t, tasks)
  /\ Frontend(t, state, Refresh(state))

\* the page starts to load; the pool is the one just deployed
InitFrontend ==
  /\ fee_recipient = None
  /\ reserve_x = 0
  /\ reserve_y = 0
  /\ total_supply = 0
  /\ total_fees_x = 0
  /\ total_fees_y = 0
  /\ lp_balances = [a \in Accounts |-> 0]
  /\ stacks_block_height = 1
  /\ steps = 0
  /\ last = NoCall
  /\ custody_x = 0
  /\ custody_y = 0
  /\ total_fees_collected = 0
  /\ user_deposits = [a \in Accounts |-> 0]
  /\ state = InitialState
  /\ tasks = One(Task("init", "providerInit"))

NextFrontend ==
  \/ InitializeAppKit
  \/ \E r \in AddressReplies : RestoreSession(r)
  \/ RestoreSessionRefreshed
  \/ RestoreSessionDisconnected
  \/ InitFetchedReserves
  \/ SubscribeProvider
  \/ SessionDelete
  \/ ConnectWallet
  \/ ConnectWalletOpened
  \/ \E resolved \in BOOLEAN : ConnectWalletConnected(resolved)
  \/ \E r \in AddressReplies : ConnectWalletAddresses(r)
  \/ DisconnectWallet
  \/ DisconnectWalletDisconnected
  \/ FetchBalancesX
  \/ FetchBalancesY
  \/ FetchReserves
  \/ ExecuteSwap
  \/ ExecuteSwapRefresh

SpecFrontend == InitFrontend /\ [][NextFrontend]_vars

TypeOK ==
  /\ fee_recipient \in Accounts \cup {None}
  /\ reserve_x \in Nat /\ reserve_y \in Nat /\ total_supply \in Nat
  /\ total_fees_x \in Nat /\ total_fees_y \in Nat
  /\ lp_balances \in [Accounts -> Nat]
  /\ stacks_block_height \in 1..MaxHeight
  /\ steps \in 0..MaxSteps
  /\ custody_x \in Nat /\ custody_y \in Nat

\* ------------------------------------------------------------ properties
RECURSIVE SumBalances(_, _)
SumBalances(f, S) ==
  IF S = {} THEN 0
  ELSE LET a == CHOOSE x \in S : TRUE IN f[a] + SumBalances(f, S \ {a})

SingleOps == {"initialize-pool", "swap-x-for-y", "swap-y-for-x",
              "add-liquidity", "remove-liquidity"}

\* this step is a call of op (a Tick leaves last alone and moves the clock)
IsCall(op) ==
  /\ steps' = steps + 1
  /\ stacks_block_height' = stacks_block_height
  /\ last'.op = op

IsBulkCall == \E op \in BulkOps : IsCall(op)

\* the single public function a bulk entry point delegates to
single_call(op, s, sender, it, height) ==
  CASE op = "bulk-swap-x-for-y" -> swap_x_for_y(s, sender, it, height)
    [] op = "bulk-swap-y-for-x" -> swap_y_for_x(s, sender, it, height)
    [] op = "bulk-add-liquidity" -> add_liquidity(s, sender, it)
    [] op = "bulk-remove-liquidity" -> remove_liquidity(s, sender, it)

\* the items sent as separate calls, one after the other: the state after k
\* of them, and the response of the k-th
RECURSIVE StateAfter(_, _, _, _, _, _)
StateAfter(op, s, sender, items, height, k) ==
  IF k = 0 THEN s
  ELSE single_call(op, StateAfter(op, s, sender, items, height, k - 1),
                   sender, items[k], height).st

ResponseOf(op, s, sender, items, height, k) ==
  single_call(op, StateAfter(op, s, sender, items, height, k - 1),
              sender, items[k], height).res

\* C1: a bulk call in which some item fails leaves reserves, total supply,
\* fee totals and every LP balance as they were before the call.
C1_BatchAtomicity ==
  [][(IsBulkCall /\ last'.oks < last'.n) => PoolState' = PoolState]_vars

\* C2: a bulk call with a non-empty list in which an item fails returns an
\* error response carrying the code of the first failing item, never ok.
C2_BulkReturnsFirstFailure ==
  (last.op \in BulkOps /\ last.n > 0 /\ last.oks < last.n)
    => (last.kind = "err" /\ last.code = last.ferr)

C4_EmptyBulkRejected ==
  \A op \in BulkOps, sender \in Callers :
    bulk(op, PoolState, sender, <<>>, stacks_block_height)
      = Ret(PoolState, Err(ERR_ZERO_INPUT))

C4_Witness ==
  /\ last.op = "bulk-remove-liquidity"
  /\ last.n = 0
  /\ last.kind = "err"
  /\ last.code = ERR_ZERO_INPUT
  /\ total_supply > 0

\* C5: the LP balances sum to total-supply in every reachable state, and in
\* the state after each item of every batch that can be sent from it.
C5_SharesSumToSupply ==
  /\ SumBalances(lp_balances, Accounts) = total_supply
  /\ steps < MaxSteps =>
       \A op \in BulkOps, sender \in Callers :
         \A items \in BulkLists(op, PoolState, sender) :
           LET m == map(op, PoolState, sender, items, stacks_block_height)
           IN \A k \in 1..Len(m.mid) :
                SumBalances(m.mid[k].lp_balances, Accounts) = m.mid[k].total_supply

C5_Witness ==
  /\ lp_balances["a1"] > 0
  /\ lp_balances["a2"] > 0
  /\ last.op = "bulk-add-liquidity"
  /\ last.oks = 2

\* C6: once initialize-pool has succeeded, reserve-x > 0 and reserve-y > 0 in
\* every later state.
C6_ReservesStayPositive ==
  fee_recipient # None => (reserve_x > 0 /\ reserve_y > 0)

\* C7: after one successful initialize-pool every later initialize-pool call
\* returns error 200.
C7_InitializeOnce ==
  [][(fee_recipient # None /\ IsCall("initialize-pool"))
       => (last'.kind = "err" /\ last'.code = ERR_ALREADY_INITIALIZED)]_vars

\* C8: fee-recipient is none until a successful initialize-pool sets it, and
\* once it holds an account it never changes to another.
C8_FeeRecipientSetOnce ==
  [][/\ (fee_recipient = None /\ fee_recipient' # None)
          => (IsCall("initialize-pool") /\ last'.kind = "ok")
     /\ fee_recipient # None => fee_recipient' = fee_recipient]_vars

\* C9: a single operation that returns an error, from a check or from a
\* failing transfer leg, leaves every data-var and LP balance unchanged.
Rejected(out) == IsErr(out.res) => out.st = PoolState

ProductKept(out) ==
  IsOk(out.res) => out.st.reserve_x * out.st.reserve_y >= reserve_x * reserve_y

C10_ProductNeverDecreases ==
  \A sender \in Callers, it \in SwapItems :
    /\ ProductKept(swap_x_for_y(PoolState, sender, it, stacks_block_height))
    /\ ProductKept(swap_y_for_x(PoolState, sender, it, stacks_block_height))

C10_Witness ==
  /\ last.op = "swap-x-for-y"
  /\ last.kind = "ok"
  /\ total_fees_x > 0

\* ---------------------------------------------------------------------------
\* Swap preconditions

\* the precondition error a swap of item it meets first at this state, checking
\* in the order given by the four codes; 0 when all four preconditions hold
FirstFailing(order, it) ==
  LET fails(c) ==
        CASE c = ERR_NOT_INITIALIZED -> fee_recipient = None
          [] c = ERR_DEADLINE_EXPIRED -> ~(stacks_block_height <= it.deadline)
          [] c = ERR_ZERO_INPUT -> ~(it.amount > 0)
          [] c = ERR_ZERO_RESERVES -> ~(reserve_x > 0 /\ reserve_y > 0)
  IN IF fails(order[1]) THEN order[1]
     ELSE IF fails(order[2]) THEN order[2]
     ELSE IF fails(order[3]) THEN order[3]
     ELSE IF fails(order[4]) THEN order[4]
     ELSE 0

PreconditionCodes ==
  {ERR_NOT_INITIALIZED, ERR_DEADLINE_EXPIRED, ERR_ZERO_INPUT, ERR_ZERO_RESERVES}

\* both swaps check their preconditions in the given order
ChecksInOrder(order) ==
  \A sender \in Callers, it \in SwapItems :
    LET c == FirstFailing(order, it)
        ox == swap_x_for_y(PoolState, sender, it, stacks_block_height)
        oy == swap_y_for_x(PoolState, sender, it, stacks_block_height)
    IN IF c # 0
         THEN ox.res = Err(c) /\ oy.res = Err(c)
         ELSE /\ ~(IsErr(ox.res) /\ ox.res.val \in PreconditionCodes)
              /\ ~(IsErr(oy.res) /\ oy.res.val \in PreconditionCodes)

\* C11 as stated: a swap checks deadline (102), zero input (100), zero reserve
\* (101), then not initialized (201), so a swap on a never-initialized pool
\* returns 102 with an expired deadline and 101 with a valid one and dx > 0.
C11_ClaimedCheckOrder ==
  ChecksInOrder(<<ERR_DEADLINE_EXPIRED, ERR_ZERO_INPUT, ERR_ZERO_RESERVES,
                  ERR_NOT_INITIALIZED>>)

\* C11 amended: a swap checks not initialized (201) first, then deadline (102),
\* zero input (100) and zero reserve (101); a swap on a never-initialized pool
\* returns 201 whatever its deadline and input amount.
C11_CheckOrder ==
  ChecksInOrder(<<ERR_NOT_INITIALIZED, ERR_DEADLINE_EXPIRED, ERR_ZERO_INPUT,
                  ERR_ZERO_RESERVES>>)

\* a swap was just rejected with 201 on a never-initialized pool, at a height
\* where a swap with an expired deadline is rejected with 201 as well
C11_Witness ==
  /\ fee_recipient = None
  /\ last.op = "swap-x-for-y"
  /\ last.code = ERR_NOT_INITIALIZED
  /\ \E it \in SwapItems :
       /\ it.deadline < stacks_block_height
       /\ swap_x_for_y(PoolState, "a1", it, stacks_block_height).res
            = Err(ERR_NOT_INITIALIZED)

\* ---------------------------------------------------------------------------
\* Effect of a successful swap

\* the fee charged on an input amount
FeeOf(amount) == (amount * FEE_BPS) \div BPS_DENOM

\* C12: a successful swap-x-for-y adds dx - fee to reserve-x, takes dy from
\* reserve-y, adds fee to total-fees-x, leaves total-fees-y and everything else
\* alone and returns {dx, dy, fee, recipient}; swap-y-for-x does the same with
\* the roles of X and Y exchanged.
C12_SwapEffect ==
  \A sender \in Callers, it \in SwapItems :
    LET fee == FeeOf(it.amount)
        net == it.amount - fee
        ox == swap_x_for_y(PoolState, sender, it, stacks_block_height)
        oy == swap_y_for_x(PoolState, sender, it, stacks_block_height)
    IN /\ IsOk(ox.res) =>
            LET dy == (reserve_y * net) \div (reserve_x + net)
            IN /\ ox.st = [PoolState EXCEPT
                             !.reserve_x = reserve_x + net,
                             !.reserve_y = reserve_y - dy,
                             !.total_fees_x = total_fees_x + fee]
               /\ ox.st.total_fees_y = total_fees_y
               /\ ox.res.val = [dx |-> it.amount, dy |-> dy, fee |-> fee,
                                recipient |-> it.recipient]
       /\ IsOk(oy.res) =>
            LET dx == (reserve_x * net) \div (reserve_y + net)
            IN /\ oy.st = [PoolState EXCEPT
                             !.reserve_x = reserve_x - dx,
                             !.reserve_y = reserve_y + net,
                             !.total_fees_y = total_fees_y + fee]
               /\ oy.st.total_fees_x = total_fees_x
               /\ oy.res.val = [dx |-> dx, dy |-> it.amount, fee |-> fee,
                                recipient |-> it.recipient]

\* a swap-y-for-x has just succeeded and charged a fee
C12_Witness ==
  /\ last.op = "swap-y-for-x"
  /\ last.kind = "ok"
  /\ total_fees_y > 0
  /\ reserve_x > 0

\* ---------------------------------------------------------------------------
\* Slippage guard

\* the order in which the swaps check their preconditions
CheckOrder ==
  <<ERR_NOT_INITIALIZED, ERR_DEADLINE_EXPIRED, ERR_ZERO_INPUT, ERR_ZERO_RESERVES>>

\* the output a swap of item it computes at this state, given the reserve of
\* its input token and that of its output token
OutputOf(it, r_in, r_out) ==
  LET net == it.amount - FeeOf(it.amount)
  IN (r_out * net) \div (r_in + net)

\* a call that changed no data-var and called no token transfer
NothingMoved(out) == out.st = PoolState /\ out.xfers = <<>>

\* C13: a swap returns ok only if the output it computes is at least the
\* caller's minimum; a swap that gets to compute an output below the minimum
\* returns 103, writes nothing and calls no token transfer.
C13_SlippageGuard ==
  \A sender \in Callers, it \in SwapItems :
    LET ox == swap_x_for_y(PoolState, sender, it, stacks_block_height)
        oy == swap_y_for_x(PoolState, sender, it, stacks_block_height)
    IN FirstFailing(CheckOrder, it) = 0 =>
         LET dy == OutputOf(it, reserve_x, reserve_y)
             dx == OutputOf(it, reserve_y, reserve_x)
         IN /\ IsOk(ox.res) => dy >= it.min_out
            /\ IsOk(oy.res) => dx >= it.min_out
            /\ dy < it.min_out =>
                 ox.res = Err(ERR_SLIPPAGE_EXCEEDED) /\ NothingMoved(ox)
            /\ dx < it.min_out =>
                 oy.res = Err(ERR_SLIPPAGE_EXCEEDED) /\ NothingMoved(oy)

\* a swap-y-for-x has just been rejected with 103 by a pool with reserves
C13_Witness ==
  /\ last.op = "swap-y-for-x"
  /\ last.kind = "err"
  /\ last.code = ERR_SLIPPAGE_EXCEEDED
  /\ reserve_x > 0 /\ reserve_y > 0

\* ---------------------------------------------------------------------------
\* Deadline guard

Expired == Err(ERR_DEADLINE_EXPIRED)

\* on an initialized pool a swap past its deadline returns 102 and changes
\* nothing, and a swap at or before its deadline does not return 102
DeadlineChecked ==
  fee_recipient # None =>
    \A sender \in Callers, it \in SwapItems :
      LET ox == swap_x_for_y(PoolState, sender, it, stacks_block_height)
          oy == swap_y_for_x(PoolState, sender, it, stacks_block_height)
      IN IF it.deadline < stacks_block_height
           THEN /\ ox.res = Expired /\ NothingMoved(ox)
                /\ oy.res = Expired /\ NothingMoved(oy)
           ELSE ox.res # Expired /\ oy.res # Expired

\* one swap request for each deadline
DeadlineProbes == {SwapItem(500, 0, d, "none") : d \in Deadlines}

\* the block height does not go down, and a swap that returns 102 before a
\* step returns 102 after it
RejectionPersists ==
  /\ stacks_block_height' >= stacks_block_height
  /\ \A sender \in Callers, it \in DeadlineProbes :
       /\ swap_x_for_y(PoolState, sender, it, stacks_block_height).res = Expired
            => swap_x_for_y(PoolState', sender, it, stacks_block_height').res
                 = Expired
       /\ swap_y_for_x(PoolState, sender, it, stacks_block_height).res = Expired
            => swap_y_for_x(PoolState', sender, it, stacks_block_height').res
                 = Expired

\* C14: on an initialized pool a swap whose deadline is below the block height
\* returns 102 and changes nothing, a swap whose deadline is at or above the
\* block height is never rejected with 102, and since the block height only
\* grows a swap rejected with 102 stays rejected with 102 at every later height.
C14_DeadlineGuard == []DeadlineChecked /\ [][RejectionPersists]_vars

\* a swap has just been rejected with 102 by an initialized pool, at a height
\* above the one where a swap with the same deadline was first rejected
C14_Witness ==
  /\ fee_recipient # None
  /\ last.op = "swap-x-for-y"
  /\ last.kind = "err"
  /\ last.code = ERR_DEADLINE_EXPIRED
  /\ \E it \in SwapItems : it.deadline + 1 < stacks_block_height

\* ---------------------------------------------------------------------------
\* Fee transfer

\* the swap requests of the input domain and one whose fee rounds to zero
FeeProbes == SwapItems \cup {SwapItem(100, 0, MaxHeight, "none")}

\* the transfer calls of a successful swap of item it by sender: the fee leg is
\* present exactly when the fee is positive and the sender is not the fee
\* recipient, the input leg carries the amount less the fee
FeeLegAsClaimed(out, sender, it, token) ==
  LET fee == FeeOf(it.amount)
      leg == Xfer(token, fee, sender, fee_recipient)
      sent == \E k \in 1..Len(out.xfers) : out.xfers[k].to = fee_recipient
                                           /\ out.xfers[k].from = sender
  IN IsOk(out.res) =>
       /\ sent <=> (fee > 0 /\ sender # fee_recipient)
       /\ sent => out.xfers[1] = leg
       /\ sender = fee_recipient =>
            /\ Len(out.xfers) = 2
            /\ out.xfers[1] = Xfer(token, it.amount - fee, sender, Pool)
       /\ \A k \in 1..Len(out.xfers) :
            out.xfers[k].to = Pool => out.xfers[k].amount = it.amount - fee

\* C15: in a successful swap the fee transfer from the caller to the fee
\* recipient is called if and only if fee > 0 and the caller is not the fee
\* recipient; when the caller is the fee recipient there is no fee transfer,
\* the caller pays only the amount less the fee into the pool, and the fee
\* total of the input token still grows by the fee.
C15_SelfSwapFeeExemption ==
  \A sender \in Callers, it \in FeeProbes :
    LET ox == swap_x_for_y(PoolState, sender, it, stacks_block_height)
        oy == swap_y_for_x(PoolState, sender, it, stacks_block_height)
    IN /\ FeeLegAsClaimed(ox, sender, it, "x")
       /\ FeeLegAsClaimed(oy, sender, it, "y")
       /\ IsOk(ox.res) =>
            ox.st.total_fees_x = total_fees_x + FeeOf(it.amount)
       /\ IsOk(oy.res) =>
            oy.st.total_fees_y = total_fees_y + FeeOf(it.amount)

\* the fee recipient has just swapped with a positive fee, at a state where
\* a swap whose fee rounds to zero succeeds as well
C15_Witness ==
  /\ fee_recipient \in Callers
  /\ last.op = "swap-y-for-x"
  /\ last.kind = "ok"
  /\ total_fees_y > 0
  /\ \E it \in FeeProbes :
       /\ FeeOf(it.amount) = 0
       /\ IsOk(swap_y_for_x(PoolState, fee_recipient, it, stacks_block_height).res)

\* ---------------------------------------------------------------------------
\* Range of the quoted output

\* C16: for every dx > 0 and reserves rx > 0, ry > 0 of the ranges, the fee
\* floor(dx*30/10000) is at most dx and the quoted output
\* floor(ry*(dx-fee)/(rx+dx-fee)) is strictly below ry, so quote-x-for-y
\* answers with that output and fee.
C16_QuoteBelowReserve ==
  \A dx \in QuoteInputs :
    (dx > 0 /\ reserve_x > 0 /\ reserve_y > 0) =>
      LET fee == (dx * 30) \div 10000
          dy == (reserve_y * (dx - fee)) \div (reserve_x + dx - fee)
      IN /\ fee <= dx
         /\ dy < reserve_y
         /\ quote_x_for_y(PoolState, dx) = Ok([dy |-> dy, fee |-> fee])

\* a quote with a positive fee and a positive output has just been answered
C16_Witness ==
  /\ last.op = "quote-x-for-y"
  /\ last.kind = "ok"
  /\ last.val.fee > 0
  /\ last.val.dy > 0
  /\ last.val.dy = reserve_y - 1

\* ---------------------------------------------------------------------------
\* Input as large as the reserve

\* swap requests whose input is the whole X reserve, and one unit more, with a
\* deadline that has not passed and a minimum of one unit of output
WholeReserveProbes ==
  {SwapItem(dx, 1, MaxHeight, "none") : dx \in {reserve_x, reserve_x + 1}}

\* C17: a swap-x-for-y on an initialized pool, with a valid deadline and a
\* minimum the output satisfies, whose input is at least the whole X reserve is
\* rejected with 104.
C17_WholeReserveInputRejected ==
  (fee_recipient # None /\ reserve_x > 0 /\ reserve_y > 0) =>
    \A sender \in Callers, it \in WholeReserveProbes :
      OutputOf(it, reserve_x, reserve_y) >= it.min_out =>
        swap_x_for_y(PoolState, sender, it, stacks_block_height).res
          = Err(ERR_INSUFFICIENT_LIQUIDITY)

\* ---------------------------------------------------------------------------
\* First deposit

Min(a, b) == IF a < b THEN a ELSE b

C20_AddLiquidityRejections ==
  /\ total_supply > 0 => reserve_x > 0 /\ reserve_y > 0
  /\ \A sender \in Callers, it \in AddItems :
       LET out == add_liquidity(PoolState, sender, it)
           fails(c) == out.res = Err(c) /\ NothingMoved(out)
       IN /\ IsOk(out.res) => out.res.val.shares > 0
          /\ IF total_supply = 0 THEN fails(ERR_NOT_INITIALIZED)
             ELSE IF it.amount_x = 0 \/ it.amount_y = 0 THEN fails(ERR_ZERO_INPUT)
             ELSE LET shares == Min((it.amount_x * total_supply) \div reserve_x,
                                    (it.amount_y * total_supply) \div reserve_y)
                  IN /\ shares < it.min_shares => fails(ERR_SLIPPAGE_EXCEEDED)
                     /\ (shares = 0 /\ it.min_shares = 0) => fails(ERR_ZERO_SHARES)

\* a deposit too small for one share has just been rejected with 203
C20_Witness ==
  /\ last.op = "add-liquidity"
  /\ last.kind = "err"
  /\ last.code = ERR_ZERO_SHARES
  /\ total_supply > 0

\* ---------------------------------------------------------------------------
\* Withdrawals

\* the withdrawals of the input domain and one whose Y minimum is out of reach
RemoveProbes(sender) ==
  RemoveItems(PoolState, sender) \cup {RemoveItem(100, <<0, 100000>>, "none")}

C22_AddThenRemove ==
  \A sender \in Callers, it \in AddItems :
    LET added == add_liquidity(PoolState, sender, it)
    IN IsOk(added.res) =>
         LET back == remove_liquidity(
                       added.st, sender,
                       RemoveItem(added.res.val.shares, <<0, 0>>, "none"))
         IN /\ IsOk(back.res)
            /\ back.res.val.x <= it.amount_x
            /\ back.res.val.y <= it.amount_y
            /\ back.res.val.x <= added.res.val.x
            /\ back.res.val.y <= added.res.val.y

\* the caller, who joined a pool opened by the other account, has just
\* redeemed every share it was minted
C22_Witness ==
  /\ last.op = "remove-liquidity"
  /\ last.kind = "ok"
  /\ steps = 3
  /\ lp_balances["a1"] = 0
  /\ lp_balances["a2"] = total_supply
  /\ total_supply > 0

\* ---------------------------------------------------------------------------
\* Scenarios with the amounts of the deployed pool

\* C23: initialize-pool with amounts (100000000, 200000000) on a fresh pool
\* returns shares = 14142, x = 100000000, y = 200000000.
C23_ScenarioShares ==
  (fee_recipient = None /\ reserve_x = 0 /\ reserve_y = 0) =>
    initialize_pool_value(PoolState,
                          [amount_x |-> 100000000, amount_y |-> 200000000])
      = Ok([shares |-> wide(14142), x |-> 100000000, y |-> 200000000])

\* C24: with reserves (100000000, 200000000), swap-x-for-y with dx = 10000000
\* returns dy = 18181818 and fee = 30000, and swap-y-for-x with dy = 20000000
\* returns dx = 9090909 and fee = 60000.
C24_ScenarioSwaps ==
  (reserve_x = 100000000 /\ reserve_y = 200000000) =>
    LET ox == swap_x_for_y(PoolState, Wallet1,
                           SwapItem(10000000, 0, MaxHeight, "none"),
                           stacks_block_height)
        oy == swap_y_for_x(PoolState, Wallet1,
                           SwapItem(20000000, 0, MaxHeight, "none"),
                           stacks_block_height)
    IN /\ IsOk(ox.res) /\ ox.res.val.dy = 18181818 /\ ox.res.val.fee = 30000
       /\ IsOk(oy.res) /\ oy.res.val.dx = 9090909 /\ oy.res.val.fee = 60000

\* ---------------------------------------------------------------------------
\* Number of token transfer calls

\* every single call of the input domain at this state satisfies P(out, legs),
\* legs being the number of transfer calls a successful swap of that item makes
\* besides the fee transfer (liquidity calls: the number they make in all)
SwapCalls(P(_, _)) ==
  \A sender \in Callers, it \in FeeProbes :
    LET fee_legs == IF FeeOf(it.amount) > 0 /\ sender # fee_recipient
                      THEN 1 ELSE 0
    IN /\ P(swap_x_for_y(PoolState, sender, it, stacks_block_height), fee_legs)
       /\ P(swap_y_for_x(PoolState, sender, it, stacks_block_height), fee_legs)

LiquidityCalls(P(_, _)) ==
  /\ \A sender \in Accounts, it \in InitItems :
       P(initialize_pool(PoolState, sender, it), 0)
  /\ \A sender \in Callers :
       /\ \A it \in AddItems : P(add_liquidity(PoolState, sender, it), 0)
       /\ \A it \in RemoveItems(PoolState, sender) :
            P(remove_liquidity(PoolState, sender, it), 0)

AtMostTwo(out, fee_legs) == Len(out.xfers) <= 2

\* two legs and the fee leg, all of them when the call succeeds
TwoAndFee(out, fee_legs) ==
  /\ Len(out.xfers) <= 2 + fee_legs
  /\ IsOk(out.res) => Len(out.xfers) = 2 + fee_legs

\* C25 as stated: a single swap calls the token transfer at most twice, and a
\* single liquidity operation at most twice.
C25_AtMostTwoTransfers == SwapCalls(AtMostTwo) /\ LiquidityCalls(AtMostTwo)

\* C25 amended: a single swap calls the token transfer at most three times
\* (fee, input and output leg): a successful swap exactly three times when its
\* fee is positive and the caller is not the fee recipient, and exactly twice
\* otherwise; a single liquidity operation calls it at most twice, and exactly
\* twice when it succeeds.
C25_TransferCalls == SwapCalls(TwoAndFee) /\ LiquidityCalls(TwoAndFee)

\* a caller who is not the fee recipient has just swapped and paid a fee
C25_Witness ==
  /\ last.op = "swap-x-for-y"
  /\ last.kind = "ok"
  /\ fee_recipient = "a2"
  /\ total_fees_x > 0
  /\ Len(swap_x_for_y(PoolState, "a1", SwapItem(500, 0, MaxHeight, "none"),
                      stacks_block_height).xfers) = 3

\* ---------------------------------------------------------------------------
\* Recorded fees

\* no step lowers a fee total
FeesNeverLowered ==
  /\ total_fees_x' >= total_fees_x
  /\ total_fees_y' >= total_fees_y

\* a successful swap adds floor(input*30/10000) to the total of its input
\* token and leaves the other total, whoever the caller is
FeeRecorded ==
  \A sender \in Callers, it \in FeeProbes :
    LET fee == (it.amount * 30) \div 10000
        ox == swap_x_for_y(PoolState, sender, it, stacks_block_height)
        oy == swap_y_for_x(PoolState, sender, it, stacks_block_height)
    IN /\ IsOk(ox.res) => /\ ox.st.total_fees_x = total_fees_x + fee
                          /\ ox.st.total_fees_y = total_fees_y
       /\ IsOk(oy.res) => /\ oy.st.total_fees_y = total_fees_y + fee
                          /\ oy.st.total_fees_x = total_fees_x

\* C26: total-fees-x and total-fees-y never decrease over any sequence of
\* operations, and each successful swap raises the total of its input token by
\* exactly floor(input*30/10000), also when the fee transfer was skipped.
C26_FeeTotalsMonotone == [][FeesNeverLowered]_vars /\ []FeeRecorded

\* a fee is on record and a withdrawal of the whole supply has just succeeded
C26_Witness ==
  /\ total_fees_y > 0
  /\ total_supply = 0
  /\ last.op = "remove-liquidity"
  /\ last.kind = "ok"

\* ---------------------------------------------------------------------------
\* Quotes

\* what the two quotes answer for an input d at this state
QuotesAnswer ==
  \A d \in QuoteInputs :
    LET qx == quote_x_for_y(PoolState, d)
        qy == quote_y_for_x(PoolState, d)
    IN IF d = 0 THEN qx = Err(100) /\ qy = Err(100)
       ELSE IF reserve_x = 0 \/ reserve_y = 0 THEN qx = Err(101) /\ qy = Err(101)
       ELSE LET fee == (d * 30) \div 10000
                net == d - fee
            IN /\ qx = Ok([dy |-> (reserve_y * net) \div (reserve_x + net),
                           fee |-> fee])
               /\ qy = Ok([dx |-> (reserve_x * net) \div (reserve_y + net),
                           fee |-> fee])

C28_CustodyMatchesReserves ==
  /\ custody_x = reserve_x
  /\ custody_y = reserve_y

\* a bulk swap of two items has completed in which one item succeeded and the
\* other failed at the transfer out of the pool, after its transfer into the
\* pool had been made
C28_Witness ==
  /\ last.op = "bulk-swap-x-for-y"
  /\ last.kind = "ok"
  /\ last.n = 2
  /\ last.oks = 1
  /\ last.ferr = ERR_TRANSFER_Y_FAILED
  /\ custody_x > 0

\* ---------------------------------------------------------------------------
\* Proportional claims

\* C29: a successful add-liquidity by one account never reduces the
\* proportional claim of any other holder: for every other account with
\* balance b, floor(b*reserve-x/total-supply) and floor(b*reserve-y/total-supply)
\* after the add are not smaller than before it.
C29_AddKeepsOtherClaims ==
  \A sender \in Accounts, it \in AddItems :
    LET out == add_liquidity(PoolState, sender, it)
    IN IsOk(out.res) =>
         \A other \in Accounts \ {sender} :
           LET before == get_user_liquidity(PoolState, other)
               after == get_user_liquidity(out.st, other)
           IN after.x >= before.x /\ after.y >= before.y

\* ---------------------------------------------------------------------------
\* Integer square root

\* C30: sqrti(n) returns the integer square root of n, the largest r with
\* r*r <= n, for every n in the checked range, products above 1000*1000
\* included; for n <= 1 it returns n and for n in {2, 3} it returns 1.
C30_SqrtiIsIntegerRoot ==
  last.op = "sqrti" =>
    LET n == last.arg
        r == last.val
    IN /\ r * r <= n
       /\ n < (r + 1) * (r + 1)
       /\ n <= 1 => r = n
       /\ n \in {2, 3} => r = 1

\* one of the two amounts of a deposit is zero
ZeroDeposit(it) == it.amount_x = 0 \/ it.amount_y = 0

\* this step is initialize-pool on a pool whose reserves are both zero
IsFirstDeposit ==
  /\ steps' = steps + 1
  /\ stacks_block_height' = stacks_block_height
  /\ last'.op = "initialize-pool"
  /\ reserve_x = 0 /\ reserve_y = 0

\* C31: initialize-pool with amount-x = 0 or amount-y = 0 on an uninitialized
\* pool returns err 100 and leaves the pool uninitialized: the reserves stay
\* zero and the fee recipient is not set
C31_ZeroDepositRejected ==
  [][(IsFirstDeposit /\ ZeroDeposit(last'.arg))
       => /\ last'.kind = "err" /\ last'.code = ERR_ZERO_INPUT
          /\ reserve_x' = 0 /\ reserve_y' = 0
          /\ fee_recipient' = fee_recipient]_vars

\* ---------------------------------------------------------------------------
\* Frame conditions

SwapOps == {"swap-x-for-y", "swap-y-for-x", "bulk-swap-x-for-y",
            "bulk-swap-y-for-x"}

\* add-liquidity and remove-liquidity, called directly or for the items of a
\* bulk call; their caller is one of Callers
LiquidityOps == {"add-liquidity", "remove-liquidity", "bulk-add-liquidity",
                 "bulk-remove-liquidity"}

\* C32: a swap, successful or not, leaves total-supply, every LP balance and
\* fee-recipient as they were; add-liquidity and remove-liquidity leave
\* total-fees-x, total-fees-y and fee-recipient as they were and change no LP
\* balance but the caller's; total-supply or an LP balance changes only in a
\* step of initialize-pool, add-liquidity or remove-liquidity.
C32_Frames ==
  [][/\ (\E op \in SwapOps : IsCall(op))
          => UNCHANGED <<total_supply, lp_balances, fee_recipient>>
     /\ (\E op \in LiquidityOps : IsCall(op))
          => /\ UNCHANGED <<total_fees_x, total_fees_y, fee_recipient>>
             /\ \A a \in Accounts \ Callers : lp_balances'[a] = lp_balances[a]
     /\ (total_supply' # total_supply \/ lp_balances' # lp_balances)
          => \E op \in {"initialize-pool"} \cup LiquidityOps : IsCall(op)]_vars

\* add-liquidity has succeeded in a pool another account opened, after a swap
\* that left a fee
C32_Witness ==
  /\ last.op = "add-liquidity" /\ last.kind = "ok"
  /\ lp_balances["a1"] > 0 /\ lp_balances["a2"] > 0
  /\ total_fees_x + total_fees_y > 0

\* ---------------------------------------------------------------------------
\* Quotes and execution

C34_NoRuntimeAbort == last.kind # "abort"

\* ---------------------------------------------------------------------------
\* Redeemability

AsV5(s, supply) ==
  [fee_recipient |-> s.fee_recipient, reserve_x |-> s.reserve_x,
   reserve_y |-> s.reserve_y, total_supply |-> supply,
   total_fees_x |-> s.total_fees_x, total_fees_y |-> s.total_fees_y,
   lp_balances |-> [a \in Accounts |->
                      IF a = s.fee_recipient THEN supply ELSE 0]]

\* the data-vars V5 shares with V3
Shared(t) ==
  [fee_recipient |-> t.fee_recipient, reserve_x |-> t.reserve_x,
   reserve_y |-> t.reserve_y, total_fees_x |-> t.total_fees_x,
   total_fees_y |-> t.total_fees_y]

SameOutcome(o3, o5) ==
  /\ o3.res = o5.res
  /\ o3.xfers = o5.xfers
  /\ o3.kept = o5.kept
  /\ o3.st = Shared(o5.st)

\* C36: from equal reserves, fee totals, fee recipient and block height, a
\* swap-x-for-y or swap-y-for-x call answers the same in V3 and in V5, makes
\* the same transfer calls and leaves equal reserves and fee totals; the
\* states after the call being equal again, so does every sequence of swaps.
C36_SameSwap ==
  \A sender \in Accounts, it \in SwapItems, supply \in {0, MINIMUM_LIQUIDITY + 1} :
    /\ SameOutcome(swap_x_for_y_v3(V3State, sender, it, stacks_block_height),
                   swap_x_for_y(AsV5(V3State, supply), sender, it,
                                stacks_block_height))
    /\ SameOutcome(swap_y_for_x_v3(V3State, sender, it, stacks_block_height),
                   swap_y_for_x(AsV5(V3State, supply), sender, it,
                                stacks_block_height))

\* swaps in both directions have left fees, and a further swap succeeds for
\* the fee recipient and for another sender
C36_Witness ==
  /\ last.op = "swap-y-for-x" /\ last.kind = "ok"
  /\ total_fees_x > 0 /\ total_fees_y > 0
  /\ \A sender \in Accounts :
       \E it \in SwapItems :
         IsOk(swap_y_for_x_v3(V3State, sender, it, stacks_block_height).res)

\* ---------------------------------------------------------------------------
\* The frontend's quote

FailedAttempt ==
  \/ ConnectWalletConnected(FALSE)
  \/ \E r \in {"none", "reject"} : ConnectWalletAddresses(r) \/ RestoreSession(r)

\* C38: in every state the page reaches through connectWallet,
\* restoreSession, the AppKit subscription, disconnectWallet and
\* session_delete, state.connected implies a non-null state.address; and a
\* connection attempt that ends without an address never turns
\* state.connected to true (it stays true only where another connection had
\* already set it).
C38_Session ==
  /\ [](state.connected => state.address # Null)
  /\ [][FailedAttempt => (state'.connected => state.connected)]_vars

\* restoreSession has failed and is disconnecting while the subscription has
\* connected the page with an address
C38_Witness ==
  /\ BagIn(Task("init", "disconnect"), tasks)
  /\ state.connected
  /\ state.address # Null

\* ---------------------------------------------------------------- C39
\* C39: whenever state.connected is false, state.balanceX and state.balanceY
\* are 0 and state.address is null, also when a disconnect is interleaved with
\* balance fetches or a connection attempt started before it.
C39_DisconnectedIsClear ==
  ~state.connected =>
    state.balanceX = 0 /\ state.balanceY = 0 /\ state.address = Null

====
